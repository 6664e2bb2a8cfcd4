----------------------------- MODULE ArchiveKeys -----------------------------
(***************************************************************************)
(* The order in which the bucket's archive snapshots are pruned.  A         *)
(* snapshot's key is "archive/v<version>-<timestamp>" (r2.go, UploadLive)   *)
(* and PruneArchives orders the keys with sort.Strings, so the version is   *)
(* compared digit by digit, as text, and not as a number.                   *)
(***************************************************************************)
EXTENDS Integers, Sequences

CONSTANT MaxVersion     \* bound: the largest manifest version considered

ASSUME MaxVersionAssumption == MaxVersion \in Nat

\* fmt's %d, most significant digit first.
Decimal[n \in 0..MaxVersion] ==
    IF n < 10 THEN <<n>> ELSE Append(Decimal[n \div 10], n % 10)

\* Text order of the keys of two versions: at the first place they differ the
\* smaller digit goes first, and the '-' that follows the version sorts
\* before every digit, so a version that is a prefix of another goes first.
KeyLess(v, w) ==
    LET s == Decimal[v]
        t == Decimal[w]
        Agree(k) == \A i \in 1..k : s[i] = t[i]
    IN  \/ \E k \in DOMAIN s \cap DOMAIN t : Agree(k - 1) /\ s[k] < t[k]
        \/ Len(s) < Len(t) /\ Agree(Len(s))

=============================================================================
