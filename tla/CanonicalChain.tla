---------------------------- MODULE CanonicalChain -----------------------------
(***************************************************************************)
(* What tandem-core and the store promise of a verifier's chain of         *)
(* processed blocks: it changes by connecting one block to its tip or by   *)
(* disconnecting its tip, and a connected block names the tip as its       *)
(* parent, one height above it.                                            *)
(***************************************************************************)
EXTENDS Integers, Sequences

VARIABLE chain   \* sequence of [hash, previous_hash, height], oldest first

\* The last block of c extends the one before it.
TipLinked(c) ==
    Len(c) > 1 =>
        /\ c[Len(c)].previous_hash = c[Len(c) - 1].hash
        /\ c[Len(c)].height = c[Len(c) - 1].height + 1

Init == chain = <<>>

Connect ==
    /\ Len(chain') = Len(chain) + 1
    /\ SubSeq(chain', 1, Len(chain)) = chain
    /\ TipLinked(chain')

Disconnect ==
    /\ chain # <<>>
    /\ chain' = SubSeq(chain, 1, Len(chain) - 1)

Spec == Init /\ [][Connect \/ Disconnect]_chain
===============================================================================
