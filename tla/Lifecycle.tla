------------------------------ MODULE Lifecycle ------------------------------
(***************************************************************************)
(* The life of bridge processes (src/cmd/gpu-ebpf-bridge/main.go run):     *)
(* choosing a telemetry source, opening and pinning the four maps          *)
(* (src/internal/maps/maps.go), running, closing, unpinning.  Processes    *)
(* share the bpffs directory and may be killed between any two steps; a    *)
(* consumer attaches to the maps it finds pinned.                          *)
(*                                                                         *)
(* A map is a number, unique among the maps of that name still referenced; *)
(* 0 stands for none.                                                      *)
(***************************************************************************)
EXTENDS Integers, Sequences, FiniteSets

CONSTANTS Procs,     \* bridge processes
          Policies   \* how operators may start bridges: with which flags, <<--mode,
                     \* --keep-pins>>, and whether while another one is alive

AllFlags == {"auto", "real", "mock"} \X BOOLEAN

ASSUME LifecycleAssumption == /\ IsFiniteSet(Procs)
                              /\ Policies \subseteq [flags : SUBSET AllFlags, together : BOOLEAN]

VARIABLES policy,    \* the operators' policy
          proc,      \* process -> its state
          pinned,    \* map name -> map pinned under that name
          consumer,  \* map name -> map a consumer holds
          unpinned   \* history: an entry was removed since the consumer attached

vars == <<policy, proc, pinned, consumer, unpinned>>

\* The maps in the order Open loads them, and in the order Unpin removes them.
OpenOrder  == <<"gpu_device", "gpu_meta", "gpu_per_pid", "gpu_per_pid_per_device">>
UnpinOrder == <<"gpu_meta", "gpu_device", "gpu_per_pid", "gpu_per_pid_per_device">>
Names      == {OpenOrder[i] : i \in 1 .. Len(OpenOrder)}
NoMaps     == [n \in Names |-> 0]
MapIds     == 0 .. Cardinality(Procs) + 3

Down == [pc |-> "down", mode |-> "mock", keep |-> FALSE, source |-> "none",
         loads |-> 0, ready |-> FALSE, closed |-> FALSE, step |-> 1, fds |-> NoMaps,
         unpinErr |-> FALSE, ctxDone |-> FALSE]

\* pc: where run stands.  source: what chooseSource returned.  loads: how often this
\* process initialised NVML without shutting it down; ready and closed: Real's
\* initialized and closed.  step: next map to open or unpin.  fds: maps the process
\* holds.  unpinErr: whether Unpin reports an error.
ProcType == [pc : {"down", "choose", "open", "pin", "init", "run", "close", "unpin", "exited", "failed"},
             mode : {"auto", "real", "mock"}, keep : BOOLEAN, source : {"none", "real", "mock"},
             loads : 0 .. 2, ready : BOOLEAN, closed : BOOLEAN,
             step : 1 .. 4, fds : [Names -> MapIds], unpinErr : BOOLEAN, ctxDone : BOOLEAN]

TypeOK == /\ policy \in Policies
          /\ proc \in [Procs -> ProcType]
          /\ pinned \in [Names -> MapIds]
          /\ consumer \in [Names -> MapIds]
          /\ unpinned \in BOOLEAN

Init == /\ policy \in Policies
        /\ proc = [p \in Procs |-> Down]
        /\ pinned = NoMaps
        /\ consumer = NoMaps
        /\ unpinned = FALSE

Alive(p) == proc[p].pc # "down"

\* Process p goes from its state to s; all else stays.
Goes(p, s) == proc' = [proc EXCEPT ![p] = s] /\ UNCHANGED <<policy, pinned, consumer, unpinned>>

-----------------------------------------------------------------------------
(* Real.Init and Real.Close.                                               *)

\* Results of Init on state s: success; a refusal by NVML, which leaves Real as it
\* was; or a failure to enumerate the devices, after which NVML is shut down.
RealInit(s) ==
    {[ok |-> TRUE,  s |-> [s EXCEPT !.loads = @ + 1, !.ready = TRUE]],
     [ok |-> FALSE, s |-> s],
     [ok |-> FALSE, s |-> [s EXCEPT !.ready = FALSE]]}

ShutdownUnchecked(s) ==                                            \* variant
    [s EXCEPT !.closed = TRUE, !.ready = FALSE, !.loads = IF s.closed THEN @ ELSE @ - 1]

\* Close, once: Shutdown only if Init succeeded.
RealClose(s) ==
    [s EXCEPT !.closed = TRUE, !.ready = FALSE,
              !.loads = IF s.ready /\ ~s.closed THEN @ - 1 ELSE @]

CloseSource(s) == IF s.source = "real" THEN RealClose(s) ELSE s

-----------------------------------------------------------------------------
(* run, step by step.                                                      *)

\* An operator starts a bridge; run asks neither the pins nor gpu_meta whether another
\* is alive.
Start(p) ==
    /\ ~Alive(p)
    /\ policy.together \/ \A q \in Procs : ~Alive(q)
    /\ \E f \in policy.flags :
         Goes(p, [Down EXCEPT !.pc = "choose", !.mode = f[1], !.keep = f[2]])

\* variant: tryReal closes what it tried in every case
TriedClosing(r) == RealClose(r.s)

\* tryReal closes a source that fails to initialise.
Tried(r) == IF r.ok THEN r.s ELSE RealClose(r.s)

\* chooseSource: mock when asked for, real when it initialises, and in auto mode
\* the mock whatever made the real one fail.
ChooseSource(p) ==
    LET s == proc[p] IN
    /\ s.pc = "choose"
    /\ \/ s.mode = "mock" /\ Goes(p, [s EXCEPT !.source = "mock", !.pc = "open"])
       \/ /\ s.mode # "mock"
          /\ \E r \in RealInit(s) :
               Goes(p, IF r.ok THEN [Tried(r) EXCEPT !.source = "real", !.pc = "open"]
                       ELSE IF s.mode = "real" THEN [Tried(r) EXCEPT !.pc = "failed"]
                       ELSE [Tried(r) EXCEPT !.source = "mock", !.pc = "open"])

Name(s) == OpenOrder[s.step]

\* A map just created under the name that s opens.
NewMap(s) ==
    LET n == Name(s)
    IN  CHOOSE m \in MapIds : m \notin {proc[q].fds[n] : q \in Procs} \cup {consumer[n], pinned[n], 0}

Opened(s) == [s EXCEPT !.step = IF s.step = 4 THEN 1 ELSE @ + 1,
                       !.pc = IF s.step = 4 THEN "init" ELSE "open"]

\* variant: a map declared without PinByName is always new
OpenPrivate(p) ==
    LET s == proc[p] IN
    /\ s.pc = "open"
    /\ Goes(p, [IF pinned[Name(s)] # 0 THEN Opened(s) ELSE [s EXCEPT !.pc = "pin"]
                EXCEPT !.fds[Name(s)] = NewMap(s)])

\* Open's next map: the one pinned under that name, or a new one.
OpenMap(p) ==
    LET s == proc[p] IN
    /\ s.pc = "open"
    /\ IF pinned[Name(s)] # 0
         THEN Goes(p, Opened([s EXCEPT !.fds[Name(s)] = pinned[Name(s)]]))
         ELSE Goes(p, [s EXCEPT !.fds[Name(s)] = NewMap(s), !.pc = "pin"])

\* The new map is pinned, unless another process pinned one first (EEXIST).
PinMap(p) ==
    LET s == proc[p] IN
    /\ s.pc = "pin"
    /\ pinned[Name(s)] = 0
    /\ pinned' = [pinned EXCEPT ![Name(s)] = s.fds[Name(s)]]
    /\ proc' = [proc EXCEPT ![p] = Opened(s)]
    /\ UNCHANGED <<policy, consumer, unpinned>>

\* variant: a failure is tried again
OpenRetried(p) ==
    LET s == proc[p] IN
    /\ s.pc \in {"open", "pin"}
    /\ Goes(p, [s EXCEPT !.fds[Name(s)] = 0, !.pc = "open"])

\* Any map may fail to open or to be pinned: what was pinned before stays pinned.
OpenFails(p) ==
    LET s == proc[p] IN
    /\ s.pc \in {"open", "pin"}
    /\ Goes(p, [CloseSource(s) EXCEPT !.fds = NoMaps, !.pc = "failed"])

\* Run initialises the source a second time; a failure skips its Close.
RunInit(p) ==
    LET s == proc[p] IN
    /\ s.pc = "init"
    /\ \/ s.source = "mock" /\ Goes(p, [s EXCEPT !.pc = "run"])
       \/ /\ s.source = "real"
          /\ \E r \in RealInit(s) : Goes(p, [r.s EXCEPT !.pc = IF r.ok THEN "run" ELSE "close"])

RunReturns(p) ==
    LET s == proc[p] IN
    /\ s.pc = "run"
    /\ s.ctxDone
    /\ Goes(p, [CloseSource(s) EXCEPT !.pc = "close"])

\* bridge.Close, then Unpin unless --keep-pins.
CloseBridge(p) ==
    LET s == proc[p] IN
    /\ s.pc = "close"
    /\ Goes(p, [s EXCEPT !.fds = NoMaps, !.pc = IF s.keep THEN "exited" ELSE "unpin"])

LastUnpinForgotten == 3                                            \* variant
LastUnpin == 4

\* Unpin removes the entry of that name, whosever it is; a missing one is no error,
\* and any other error leaves the entry and goes on with the next name.
UnpinMap(p) ==
    LET s == proc[p]
        n == UnpinOrder[s.step]
        next == IF s.step = LastUnpin THEN [s EXCEPT !.pc = "exited", !.step = 1]
                ELSE [s EXCEPT !.step = @ + 1]
    IN  /\ s.pc = "unpin"
        /\ UNCHANGED <<policy, consumer>>
        /\ \/ /\ pinned' = [pinned EXCEPT ![n] = 0]
              /\ unpinned' = (unpinned \/ consumer # NoMaps)
              /\ proc' = [proc EXCEPT ![p] = next]
           \/ /\ pinned[n] # 0
              /\ proc' = [proc EXCEPT ![p] = [next EXCEPT !.unpinErr = TRUE]]
              /\ UNCHANGED <<pinned, unpinned>>

-----------------------------------------------------------------------------
(* The environment.                                                        *)

Cancel(p) ==
    /\ Alive(p) /\ proc[p].pc \notin {"exited", "failed"}
    /\ ~proc[p].ctxDone
    /\ Goes(p, [proc[p] EXCEPT !.ctxDone = TRUE])

\* The process ends, killed or not; the kernel takes back what it held.
Gone(p) == Alive(p) /\ Goes(p, Down)

ConsumerAttaches ==
    /\ consumer = NoMaps
    /\ \A n \in Names : pinned[n] # 0
    /\ consumer' = pinned
    /\ unpinned' = FALSE
    /\ UNCHANGED <<policy, proc, pinned>>

ConsumerLeaves ==
    /\ consumer # NoMaps
    /\ consumer' = NoMaps
    /\ unpinned' = FALSE
    /\ UNCHANGED <<policy, proc, pinned>>

Step(p) == \/ ChooseSource(p) \/ OpenMap(p) \/ PinMap(p) \/ OpenFails(p) \/ RunInit(p)
           \/ RunReturns(p) \/ CloseBridge(p) \/ UnpinMap(p)

Next == \/ \E p \in Procs : Start(p) \/ Step(p) \/ Cancel(p) \/ Gone(p)
        \/ ConsumerAttaches \/ ConsumerLeaves

Spec == Init /\ [][Next]_vars

\* Each process's main goroutine runs when it can.
FairSpec == Spec /\ \A p \in Procs : WF_vars(Step(p))

-----------------------------------------------------------------------------

\* The maps a bridge writes are the ones consumers find, all four of them, even if
\* earlier bridges were killed half-way through Open or Unpin and left some entries
\* behind, and even if bridges race to create the same maps (maps.go:49-70, 85-96).
\* It holds when bridges are started one at a time, or all keep their pins.
RunningOwnsPins ==
    \A p \in Procs : proc[p].pc = "run" => pinned = proc[p].fds

\* A consumer attached to the maps reads what any running bridge writes, across clean
\* restarts, kills and racing starts, until some bridge removes an entry: with
\* --keep-pins it goes on reading "across a bridge restart" (main.go:187-191).
ConsumersSurvive ==
    \A p \in Procs : proc[p].pc = "run" /\ consumer # NoMaps /\ ~unpinned
                       => consumer = proc[p].fds

\* README.md:241 says that "pins exist as long as the bridge is running".
PinnedWhileRunning ==
    \A p \in Procs : proc[p].pc = "run" => \A n \in Names : pinned[n] # 0

\* A bridge that stops by itself after running, without --keep-pins, leaves none of
\* the four entries, whatever it found at its start, or reports that Unpin failed
\* (README.md:65, main.go:196-201).
CleanExitLeavesNoPin ==
    \A p \in Procs : proc[p].pc = "exited" /\ ~proc[p].keep /\ ~proc[p].unpinErr
                       => pinned = NoMaps

\* NVML is shut down only while it is loaded (real.go:124), and it is loaded, and
\* the source not closed, as long as the poll loop uses it.
SourceLoadedWhenUsed ==
    \A p \in Procs : LET s == proc[p] IN
        /\ s.ready => s.loads > 0
        /\ s.pc = "run" /\ s.source = "real" => s.ready /\ ~s.closed

\* real.go:92 says that once the library is loaded "we must call Shutdown at Close()
\* time to balance Init": a process that ends by itself has shut down each Init.
InitsAreBalanced ==
    \A p \in Procs : proc[p].pc \in {"exited", "failed"} => proc[p].loads = 0

\* Under FairSpec, a bridge exits once it is signalled, wherever the signal finds it
\* (main.go:153, 186-206).
SignalEnds ==
    \A p \in Procs : proc[p].ctxDone ~> proc[p].pc \in {"exited", "failed", "down"}
=============================================================================
