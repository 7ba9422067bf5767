---------------------------- MODULE AtomicWrites ----------------------------
(***************************************************************************)
(* What the write journal promises (design §3.4): a write that was         *)
(* accepted takes effect by compare-and-swap on its file, is then reported *)
(* in the event log once, and is then finished; or it is abandoned because *)
(* the file holds what neither the write nor its author has seen.  There   *)
(* are no stages, no index, no crashes and no replay here.                 *)
(***************************************************************************)
EXTENDS Naturals

CONSTANTS Paths, Hashes, Seqs, NoWrite

VARIABLES
    store,     \* what every file holds
    writes,    \* the writes accepted so far, NoWrite for the others
    phase      \* how far each write has got

vars == <<store, writes, phase>>

WriteRecord == [kind: {"file", "event"}, path: Paths, before: Hashes, result: Hashes,
                logs: BOOLEAN]

TypeOK ==
    /\ store \in [Paths -> Hashes]
    /\ writes \in [Seqs -> WriteRecord \cup {NoWrite}]
    /\ phase \in [Seqs -> {"free", "accepted", "landed", "logged", "finished", "abandoned"}]

Init ==
    /\ store \in [Paths -> Hashes]
    /\ writes = [s \in Seqs |-> NoWrite]
    /\ phase = [s \in Seqs |-> "free"]

To(s, ph) == phase' = [phase EXCEPT ![s] = ph]

(* An event write reports a change that already happened.                  *)
Accept(s, w) ==
    /\ phase[s] = "free"
    /\ w.kind = "event" \/ w.before = store[w.path]
    /\ writes' = [writes EXCEPT ![s] = w]
    /\ To(s, IF w.kind = "event" THEN "landed" ELSE "accepted")
    /\ UNCHANGED store

(* Compare-and-swap.  It may happen again for a write that is not finished *)
(* when the file is back at `before`.                                      *)
Land(s) ==
    /\ phase[s] \in {"accepted", "landed", "logged"} /\ writes[s].kind = "file"
    /\ store[writes[s].path] = writes[s].before
    /\ store' = [store EXCEPT ![writes[s].path] = writes[s].result]
    /\ phase' = [phase EXCEPT ![s] = IF @ = "accepted" THEN "landed" ELSE @]
    /\ UNCHANGED writes

(* The content is there although this write did not put it there.          *)
FoundLanded(s) ==
    /\ phase[s] = "accepted" /\ store[writes[s].path] = writes[s].result
    /\ To(s, "landed")
    /\ UNCHANGED <<store, writes>>

Log(s) ==
    /\ phase[s] = "landed" /\ writes[s].logs
    /\ To(s, "logged")
    /\ UNCHANGED <<store, writes>>

Finish(s) ==
    /\ \/ phase[s] = "logged"
       \/ phase[s] = "landed" /\ ~writes[s].logs
    /\ To(s, "finished")
    /\ UNCHANGED <<store, writes>>

Abandon(s) ==
    /\ phase[s] \in {"accepted", "landed", "logged"} /\ writes[s].kind = "file"
    /\ store[writes[s].path] \notin {writes[s].before, writes[s].result}
    /\ To(s, "abandoned")
    /\ UNCHANGED <<store, writes>>

OutsideChange(p, hash) ==
    /\ store' = [store EXCEPT ![p] = hash]
    /\ UNCHANGED <<writes, phase>>

Next ==
    \/ \E s \in Seqs :
          \/ \E w \in WriteRecord : Accept(s, w)
          \/ Land(s) \/ FoundLanded(s) \/ Log(s) \/ Finish(s) \/ Abandon(s)
    \/ \E p \in Paths, hash \in Hashes : OutsideChange(p, hash)

Spec == Init /\ [][Next]_vars
=============================================================================
