---------------------------- MODULE TableLemmas ----------------------------
(***************************************************************************)
(* The least and greatest elements of sets of numbers, what the queries on *)
(* the blocks table return (ORDER BY number), and what the node's steps    *)
(* keep: lemmas that the proofs of the indexers share.                     *)
(***************************************************************************)
EXTENDS Chain, BlockTable, WellFoundedInduction, TLAPS

USE ChainAssumption

(* A non-empty set of natural numbers has a least element, by the          *)
(* well-foundedness of < on Nat.                                           *)
LEMMA LeastElement ==
  ASSUME NEW S \in SUBSET Nat, S # {}
  PROVE  \E m \in S : \A n \in S : m <= n
<1> DEFINE R == {ss \in Nat \X Nat : ss[1] < ss[2]}
<1>1. IsWellFoundedOn(R, Nat)
  BY NatLessThanWellFounded DEF OpToRel
<1>2. \E x \in S : \A y \in S : <<y, x>> \notin R
  <2> HIDE DEF R
  <2> QED BY <1>1, WFMin
<1>3. PICK x \in S : \A y \in S : <<y, x>> \notin R
  BY <1>2
<1>4. ASSUME NEW y \in S PROVE x <= y
  <2>1. <<y, x>> \notin R
    BY <1>3
  <2>2. <<y, x>> \in Nat \X Nat
    OBVIOUS
  <2>3. ~ (y < x)
    BY <2>1, <2>2
  <2> QED BY <2>3
<1> QED BY <1>4

(* A non-empty set of natural numbers with an upper bound has a greatest   *)
(* element: what ORDER BY number DESC LIMIT 1 and Max return.              *)
LEMMA GreatestElement ==
  ASSUME NEW S \in SUBSET Nat, S # {}, NEW k \in Nat, \A n \in S : n <= k
  PROVE  \E m \in S : \A n \in S : n <= m
<1> DEFINE T == {x \in Nat : k - x \in S}
<1>1. \A n \in S : k - n \in T
  <2> SUFFICES ASSUME NEW n \in S PROVE k - n \in T
    OBVIOUS
  <2>1. n \in Nat /\ n <= k /\ k - (k - n) = n
    OBVIOUS
  <2> QED BY <2>1
<1>2. PICK t \in T : \A u \in T : t <= u
  <2>1. T \in SUBSET Nat /\ T # {}
    BY <1>1
  <2> QED BY <2>1, LeastElement
<1>3. k - t \in S
  OBVIOUS
<1>4. ASSUME NEW n \in S PROVE n <= k - t
  <2>1. t <= k - n
    BY <1>1, <1>2
  <2> QED BY <2>1
<1> QED BY <1>3, <1>4

(* The maximum of a set of heights is one of them and bounds the others.   *)
LEMMA MaxProperty ==
  ASSUME NEW S \in SUBSET Heights, S # {}
  PROVE  Max(S) \in S /\ \A n \in S : n <= Max(S)
<1>1. \E m \in S : \A n \in S : n <= m
  <2>1. S \in SUBSET Nat /\ \A n \in S : n <= MaxHeight
    BY DEF Heights
  <2>2. QED
    BY <2>1, GreatestElement
<1>2. \E m \in S : \A n \in S : m >= n
  BY <1>1 DEF Heights
<1>3. QED
  BY <1>2 DEF Max, Heights

(* getMaxBlockNumber returns the greatest stored number, if there is one.  *)
LEMMA MaxNumberProperty ==
  ASSUME NEW rows \in SUBSET Block
  PROVE  /\ MaxNumber(rows) \in Heights \cup {NoBlock}
         /\ \A r \in rows : r.number <= MaxNumber(rows)
<1>1. CASE rows = {}
  BY <1>1 DEF MaxNumber
<1>2. CASE rows # {}
  <2>1. Numbers(rows) \in SUBSET Heights /\ Numbers(rows) # {}
    BY <1>2 DEF Numbers, Block
  <2>2. QED
    BY <1>2, <2>1, MaxProperty DEF MaxNumber, Numbers
<1>3. QED
  BY <1>1, <1>2

LEMMA MaxNumberOfNonEmpty ==
  ASSUME NEW rows \in SUBSET Block, rows # {}
  PROVE  MaxNumber(rows) \in Numbers(rows)
<1>1. Numbers(rows) \in SUBSET Heights /\ Numbers(rows) # {}
  BY DEF Numbers, Block
<1>2. QED
  BY <1>1, MaxProperty DEF MaxNumber

(* What the node returns is a block, one height above its parent.          *)
LEMMA BlockAtProperty ==
  ASSUME ChainTypeOK, NEW n \in Heights
  PROVE  BlockAt(n) \in Block /\ BlockAt(n).number = n /\ WellFormed(BlockAt(n))
<1>1. /\ n \in Nat
      /\ chain[n] \in 0..MaxFork
      /\ n # 0 => n - 1 \in Heights /\ chain[n - 1] \in 0..MaxFork
  BY DEF ChainTypeOK, Heights
<1>2. BlockAt(n) \in Block
  BY <1>1 DEF BlockAt, Block, Hash, ZeroHash, NotMined, Heights
<1>3. QED
  BY <1>1, <1>2 DEF BlockAt, WellFormed

(* The node keeps the type of its chain.                                   *)
LEMMA ChainStepType ==
  ASSUME ChainTypeOK, ChainNext
  PROVE  ChainTypeOK'
<1>1. CASE Mine
  <2>1. head' \in Heights
    BY <1>1 DEF Mine, ChainTypeOK, Heights
  <2>2. QED
    BY <1>1, <2>1 DEF Mine, ChainTypeOK
<1>2. ASSUME NEW k \in Heights, Reorg(k)
      PROVE  ChainTypeOK'
  <2>1. fork' \in 1..MaxFork
    BY <1>2 DEF Reorg, ChainTypeOK
  <2>2. \A n \in Heights : chain'[n] \in 0..MaxFork
    BY <1>2 DEF Reorg, ChainTypeOK, NotMined, Heights
  <2>3. QED
    BY <1>2, <2>1, <2>2 DEF Reorg, ChainTypeOK
<1>3. QED
  BY <1>1, <1>2 DEF ChainNext
=============================================================================
