-------------------------------- MODULE Dump --------------------------------
(***************************************************************************)
(* gpu-ebpf-bridge --dump (src/cmd/gpu-ebpf-bridge/dump.go) reading the    *)
(* four maps while the bridge writes them.  Each lookup is a step of its   *)
(* own, and no lock keeps the poller from writing between two of them.     *)
(* An eBPF consumer that reads gpu_meta and then a row takes the same      *)
(* steps as a dump that visits that row only.                              *)
(***************************************************************************)
EXTENDS Poller

VARIABLES
    stage,    \* map being read: "meta", "device", "per_pid", "per_key", "done"
    ahead,    \* entries found in that map when it was opened, unchanged since, to be visited
    moved,    \* a row of that map was rewritten or lost since it was opened
    shown,    \* what was printed: gpu_meta, and a partial function per map
    due,      \* history: rows promised by gpu_meta when it was read
    blamed    \* history: rows lost when a summary that counts them was read

dump  == <<stage, ahead, moved, shown, due, blamed>>
dvars == <<vars, dump>>

Nothing == [x \in {} |-> 0]
Put(f, x, v) == [y \in DOMAIN f \cup {x} |-> IF y = x THEN v ELSE f[y]]

DumpTypeOK ==
    /\ stage \in {"meta", "device", "per_pid", "per_key", "done"}
    /\ ahead \subseteq CASE stage = "device" -> Slots [] stage = "per_pid" -> Pids
                         [] stage = "per_key" -> Keys [] OTHER -> {}
    /\ moved \in BOOLEAN
    /\ DOMAIN shown = {"meta", "device", "per_pid", "per_key"}
    /\ DOMAIN shown.device \subseteq Slots
    /\ DOMAIN shown.per_pid \subseteq Pids
    /\ DOMAIN shown.per_key \subseteq Keys
    /\ due.keys \subseteq Keys /\ due.pids \subseteq Pids
    /\ blamed \subseteq Keys

DumpInit ==
    /\ Init
    /\ stage = "meta"
    /\ ahead = {} /\ moved = FALSE
    /\ shown = [meta |-> gpu_meta, device |-> Nothing, per_pid |-> Nothing, per_key |-> Nothing]
    /\ due = [keys |-> {}, pids |-> {}]
    /\ blamed = {}

-----------------------------------------------------------------------------

\* Variant: the details are read before the summaries.
DetailsFirst == [meta |-> "device", device |-> "per_key", per_key |-> "per_pid", per_pid |-> "done"]

\* The order in which runDump prints the maps.
NextStage == [meta |-> "device", device |-> "per_pid", per_pid |-> "per_key", per_key |-> "done"]

\* What a map holds for a reader; dumpDevice skips the slots never written.
Content(s) ==
    CASE s = "device"  -> [d \in {e \in Slots : gpu_device[e] > 0} |-> gpu_device[d]]
      [] s = "per_pid" -> [p \in {q \in Pids : gpu_per_pid[q] # NoRow} |-> gpu_per_pid[p]]
      [] s = "per_key" -> [k \in {l \in Keys : gpu_per_pid_per_device[l] > 0} |->
                             gpu_per_pid_per_device[k]]
      [] OTHER         -> Nothing

OpenSame(s) == stage' = s /\ ahead' = DOMAIN Content(stage) /\ moved' = FALSE     \* variant
Open(s)     == stage' = s /\ ahead' = DOMAIN Content(s) /\ moved' = FALSE

\* gpu_meta is looked up first.
DumpMeta ==
    /\ stage = "meta"
    /\ shown' = [shown EXCEPT !.meta = gpu_meta]
    /\ due' = [keys |-> covered \ lostKeys, pids |-> PidsOf(covered) \ lostPids]
    /\ Open(NextStage["meta"])
    /\ UNCHANGED <<vars, blamed>>

\* The iterator visits an entry.  One inserted or rewritten meanwhile may be visited or
\* not; one visited already comes up again only if the iterator was set back.
DumpEntry ==
    /\ \E x \in DOMAIN Content(stage) :
         /\ x \notin DOMAIN shown[stage] \/ moved
         /\ shown' = [shown EXCEPT ![stage] = Put(@, x, Content(stage)[x])]
         /\ ahead' = ahead \ {x}
         /\ blamed' = IF stage = "per_pid" THEN blamed \cup {k \in lostKeys : k[1] = x} ELSE blamed
    /\ UNCHANGED <<vars, stage, moved, due>>

\* The iterator reaches the end: it cannot pass by an entry that stayed where it was.
DumpNextMap ==
    /\ stage \in {"device", "per_pid", "per_key"}
    /\ ahead = {}
    /\ Open(NextStage[stage])
    /\ UNCHANGED <<vars, shown, due, blamed>>

\* Set back too many times, the iterator gives up, and runDump with it.
DumpAborts ==
    /\ moved
    /\ stage' = "done" /\ ahead' = {} /\ moved' = FALSE
    /\ UNCHANGED <<vars, shown, due, blamed>>

DumpStep == DumpMeta \/ DumpEntry \/ DumpNextMap \/ DumpAborts

\* Rows of the map being read that a step of the bridge rewrites, which moves them to
\* the head of their bucket in an LRU hash, and those it makes the kernel evict.  If the
\* iterator stands on one of them, it goes on from the head of the bucket or of the map.
Rewritten == CASE stage = "per_pid" /\ pc' = pc -> (pidsLeft \ pidsLeft') \ lostPids'
               [] stage = "per_key" /\ pc' = pc -> (keysLeft \ keysLeft') \ lostKeys'
               [] OTHER                         -> {}
Disturbed == DOMAIN Content(stage) \cap (Rewritten \cup (DOMAIN Content(stage) \ DOMAIN Content(stage)'))

\* The bridge runs, dies and starts again on its pinned maps around the dump.  For a
\* reader of the maps, a clean stop that keeps them pinned is one more place to die at.
BridgeStep ==
    /\ RunStep \/ TickerFires \/ Crash \/ Restart
    /\ UNCHANGED <<stage, shown, due, blamed>>
    /\ ahead' = ahead \ Disturbed
    /\ moved' = (moved \/ Disturbed # {})

DumpSpec == DumpInit /\ [][BridgeStep \/ DumpStep]_dvars

-----------------------------------------------------------------------------

\* Nothing a dump prints of the round its gpu_meta line advertises is older than
\* that line, however many rounds go by while it reads (README.md:241 presents
\* --dump as usable next to a running bridge; runDump reads gpu_meta first).
NothingOlderThanMeta ==
    /\ \A d \in DOMAIN shown.device :
         d < shown.meta.n_devices => shown.device[d] >= shown.meta.stamp
    /\ \A p \in due.pids \cap DOMAIN shown.per_pid : shown.per_pid[p].stamp >= shown.meta.stamp
    /\ \A k \in due.keys \cap DOMAIN shown.per_key : shown.per_key[k] >= shown.meta.stamp

\* A printed detailed row is never older than a printed summary that counts it:
\* the reader takes the maps in the order that suits the writer's.
DetailNotOlderThanSummary ==
    \A p \in DOMAIN shown.per_pid : \A d \in shown.per_pid[p].devs :
        <<p, d>> \in DOMAIN shown.per_key \ blamed =>
            shown.per_key[<<p, d>>] >= shown.per_pid[p].stamp
=============================================================================
