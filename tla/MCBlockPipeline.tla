-------------------------- MODULE MCBlockPipeline ---------------------------
(* A small instance of BlockPipeline for TLC. *)
EXTENDS BlockPipeline

CONSTANTS upokt, other,   \* denominations
          a1, a2, a3,     \* Morse accounts
          s1, s2,         \* services
          d1, d2,         \* domains
          p1, p2          \* suppliers

\* One account of each kind.
FewKinds == (a1 :> "account" @@ a2 :> "application" @@ a3 :> "supplier")
FewAmounts == (a1 :> 1 @@ a2 :> 2 @@ a3 :> 4)

\* The other denomination may appear, change and vanish.
FewBases == {(upokt :> 1 @@ other :> n) : n \in {0, 1, 2}}

\* One service for either domain, or two of which one has no domain.
FewOffers == {s1 :> d1, s1 :> d2, s1 :> None @@ s2 :> d1}

FewRelays == (s1 :> 1 @@ s2 :> 2)

\* Suppliers are alike.
Symmetry == Permutations({p1, p2})
=============================================================================
