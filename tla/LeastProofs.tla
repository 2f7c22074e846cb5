----------------------------- MODULE LeastProofs -----------------------------
(***************************************************************************)
(* Least elements: the loops of the kernel that search a table from its    *)
(* start (bread, find_free_page, get_free_tlb, sched) return the least     *)
(* index of those that qualify, which the modules write with CHOOSE.       *)
(***************************************************************************)
EXTENDS Naturals, WellFoundedInduction, TLAPS

(* The order of the naturals, as the set of pairs WFMin is about. *)
LEMMA LessThanRelation ==
  \E Lt : /\ IsWellFoundedOn(Lt, Nat)
          /\ \A n, m \in Nat : <<m, n>> \in Lt <=> m < n
<1>1. \A n, m \in Nat : <<m, n>> \in OpToRel(<, Nat) <=> m < n
  BY DEF OpToRel
<1> QED BY <1>1, NatLessThanWellFounded, Zenon

(* Every nonempty set of naturals has a least element. *)
LEMMA LeastExists ==
  ASSUME NEW S \in SUBSET Nat, S # {}
  PROVE  \E n \in S : \A m \in S : n <= m
<1>1. PICK Lt : /\ IsWellFoundedOn(Lt, Nat)
                /\ \A n, m \in Nat : <<m, n>> \in Lt <=> m < n
  BY LessThanRelation, Zenon
<1>2. PICK n \in S : \A m \in S : ~ (<<m, n>> \in Lt)
  BY <1>1, WFMin, Zenon
<1>3. \A m \in S : n \in Nat /\ m \in Nat /\ (<<m, n>> \in Lt <=> m < n)
  BY <1>1, Zenon
<1>4. \A m \in S : n \in Nat /\ m \in Nat /\ ~(m < n)
  BY <1>2, <1>3, Zenon
<1>5. \A a, b \in Nat : ~(a < b) => b <= a
  OBVIOUS
<1> QED BY <1>4, <1>5
=============================================================================
