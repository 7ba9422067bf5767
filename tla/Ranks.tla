-------------------------------- MODULE Ranks --------------------------------
(***************************************************************************)
(* domain/rank.ts: the rank between two ranks, after the last one, and the *)
(* even spacing of a region.  A rank is the sequence of its digits, most   *)
(* significant first; no rank, and no rank that fits, is <<>>.             *)
(*                                                                         *)
(* X_Y is X with the plausible mistake Y; no action uses it.               *)
(***************************************************************************)
EXTENDS Integers, Sequences, FiniteSetsExt

CONSTANTS
    BASE,             \* 36 in the code
    INITIAL_RANK,     \* "hzzzzz" in the code
    MAX_RANK_LENGTH   \* 32 in the code

ASSUME RankAssumption ==
    /\ BASE \in Nat \ {0, 1} /\ BASE % 2 = 0
    /\ MAX_RANK_LENGTH \in Nat
    /\ INITIAL_RANK \in Seq(0..BASE-1) /\ Len(INITIAL_RANK) \in 1..MAX_RANK_LENGTH

NoRank == <<>>
Exhausted == <<>>
AllRanks == UNION {[1..n -> 0..BASE-1] : n \in 1..MAX_RANK_LENGTH}

valueAt(r, width) ==
    MapThenSumSet(LAMBDA i : IF i <= Len(r) THEN r[i] * BASE^(width - i) ELSE 0, 1..width)
renderFixed(v, width) == [i \in 1..width |-> (v \div BASE^(width - i)) % BASE]
trim(r) == SubSeq(r, 1, Max({1} \cup {i \in DOMAIN r : r[i] # 0}))

(* The order of strings.                                                   *)
Precedes(r, s) ==
    \E n \in DOMAIN s : /\ \A i \in 1..(n - 1) : i <= Len(r) /\ r[i] = s[i]
                        /\ n > Len(r) \/ r[n] < s[n]

(* Half the sum, to one digit more; BASE is even, so that this is exact.   *)
midpoint(lower, upper) ==
    LET width == Max({Len(lower), Len(upper)}) + 1
    IN trim(renderFixed((valueAt(lower, width) + valueAt(upper, width)) * (BASE \div 2),
                        width + 1))

append_Wraps(before) ==
    LET width == Max({Len(before), Len(INITIAL_RANK)})
    IN renderFixed(valueAt(before, width) + BASE, width)

(* The end of a list is counted, not bisected: its ranks keep their width. *)
append(before) ==
    LET widths == {w \in Max({Len(before), Len(INITIAL_RANK)})..MAX_RANK_LENGTH :
                       valueAt(before, w) + BASE < BASE^w}
        width == Min(widths)
    IN IF widths = {} THEN Exhausted ELSE renderFixed(valueAt(before, width) + BASE, width)

between(before, after) ==
    CASE before # NoRank /\ after # NoRank /\ ~Precedes(before, after) -> Exhausted
      [] before = NoRank /\ after = NoRank -> INITIAL_RANK
      [] before # NoRank /\ after = NoRank -> append(before)
      [] OTHER ->
             LET rank == midpoint(before, after)
             IN IF Len(rank) <= MAX_RANK_LENGTH /\ Precedes(before, rank) /\ Precedes(rank, after)
                THEN rank ELSE Exhausted

requiredWidth(count) ==
    1 + Min({MAX_RANK_LENGTH} \cup {w \in 1..MAX_RANK_LENGTH : BASE^w >= count + 2})

spread(count, before, after) ==
    LET width == Max({Len(INITIAL_RANK), Len(before), Len(after), requiredWidth(count)})
        start == valueAt(before, width)
        top == IF after = NoRank THEN BASE^width - 1 ELSE valueAt(after, width)
        step == (top - start) \div (count + 1)
    IN IF step <= 0 THEN Exhausted
       ELSE [i \in 1..count |-> trim(renderFixed(start + step * i, width))]
=============================================================================
