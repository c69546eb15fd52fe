--------------------------------- MODULE Lists ---------------------------------
(***************************************************************************)
(* The operators on sequences that the worker, the command line tool and   *)
(* the start use, with the names and meanings of SequencesExt.  That       *)
(* module brings the theorems about bags, finite sets and sequences into   *)
(* the context of every proof step, which makes each several times slower. *)
(***************************************************************************)
EXTENDS Integers, Sequences, FiniteSets, Functions

\* The sequences over S of at most n elements.
SeqOf(S, n) == UNION {[1..k -> S] : k \in 0..n}

Contains(s, x) == \E i \in 1..Len(s) : s[i] = x

Front(s) == SubSeq(s, 1, Len(s) - 1)
Last(s) == s[Len(s)]
Reverse(s) == [i \in 1..Len(s) |-> s[Len(s) - i + 1]]

\* s is the beginning, or the end, of t.
IsPrefix(s, t) == Len(s) <= Len(t) /\ SubSeq(s, 1, Len(s)) = SubSeq(t, 1, Len(s))
IsSuffix(s, t) == IsPrefix(Reverse(s), Reverse(t))
===============================================================================
