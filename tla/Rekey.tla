-------------------------------- MODULE Rekey --------------------------------
(***************************************************************************)
(* Display keys: the next number for a new issue (domain/issue.ts), and    *)
(* the plan that settles keys two clones gave out at the same time         *)
(* (domain/rekey.ts).  A key is its number; a uid is a ULID, and numbers   *)
(* stand for the order in which ULIDs were made.                           *)
(***************************************************************************)
EXTENDS Integers, Sequences, FiniteSets, SequencesExt, FiniteSetsExt

highest(numbers) == Max(numbers \cup {0})

(* Former keys count, and the names of files that do not parse.            *)
allocateKey(keys, former, quarantined) == highest(keys \cup former \cup quarantined) + 1

(* Of the issues that claim a key the one made first keeps it.             *)
Losers_Newest(claimants) ==
    {c \in claimants : \E d \in claimants : d.key = c.key /\ d.uid > c.uid}
Losers(claimants) == {c \in claimants : \E d \in claimants : d.key = c.key /\ d.uid < c.uid}

(* All losers are numbered together, in an order every clone can see.      *)
planRekeys_Grouped(claimants) ==
    LET last == highest({c.key : c \in claimants})
    IN SetToSeq({[uid |-> c.uid, path |-> c.path, from |-> c.key,
                  to |-> last + Cardinality({d \in Losers(claimants) :
                                                d.key = c.key /\ d.uid <= c.uid})]
                   : c \in Losers(claimants)})
planRekeys_Backwards(claimants) ==
    LET last == highest({c.key : c \in claimants})
        after(c, d) == c.key > d.key \/ (c.key = d.key /\ c.uid > d.uid)
        losers == SetToSortSeq(Losers(claimants), after)
    IN [i \in 1..Len(losers) |->
           [uid |-> losers[i].uid, path |-> losers[i].path, from |-> losers[i].key,
            to |-> last + Len(losers) - i + 1]]
planRekeys(claimants) ==
    LET last == highest({c.key : c \in claimants})
        losers == Losers(claimants)
        before(c, d) == c.key < d.key \/ (c.key = d.key /\ c.uid < d.uid)
        turn(c) == Cardinality({d \in losers : before(d, c)}) + 1
        loser(i) == CHOOSE c \in losers : turn(c) = i
    IN [i \in 1..Cardinality(losers) |->
           [uid |-> loser(i).uid, path |-> loser(i).path, from |-> loser(i).key, to |-> last + i]]

(* Only this file changes; the key it had becomes an alias.                *)
patchRekey(file, from, to) == [file EXCEPT !.key = to, !.former = @ \cup {from}]
=============================================================================
