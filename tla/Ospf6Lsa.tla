------------------------------ MODULE Ospf6Lsa ------------------------------
(***************************************************************************)
(* Link state advertisements of a sibling: ospf6_lsa.c and the keyed       *)
(* lists of ospf6_lsdb.c.  An LSA is the key that type, id and advertising *)
(* router form together, and an instance: sequence number, checksum, age.  *)
(* Ages count in units of MAX_AGE_DIFF seconds or more, so that the two    *)
(* age rules of ospf6_lsa_compare can be told apart.                       *)
(***************************************************************************)
EXTENDS Integers, FiniteSets, Sequences, Functions, TLC

CONSTANTS
    LinkKeys,            \* keys of link-local scope
    AreaKeys,            \* keys of area scope
    SelfKeys,            \* keys whose advertising router is this router
    MaxSeq,              \* bound on the sequence numbers enumerated
    MAXAGE,              \* ospf6_proto.h:10
    MAX_AGE_DIFF,        \* ospf6_proto.h:11
    MAX_SEQUENCE_NUMBER  \* ospf6_proto.h:13

ASSUME LsaAssumption ==
    /\ LinkKeys \cap AreaKeys = {}
    /\ SelfKeys \subseteq LinkKeys \cup AreaKeys
    /\ MaxSeq \in Nat /\ MAXAGE \in Nat /\ MAX_AGE_DIFF \in Nat \ {0}
    /\ MAX_SEQUENCE_NUMBER \in Nat

Keys == LinkKeys \cup AreaKeys

Lsas == [seq : 0 .. MaxSeq, ck : 0 .. 1, age : 0 .. MAXAGE]

\* Partial maps from keys to instances: struct ospf6_lsdb, which is used for
\* the databases and for every list of a neighbour.
Lsdbs == UNION {[K -> Lsas] : K \in SUBSET Keys}

EmptyLsdb == [k \in {} |-> 0]

IS_MAXAGE(lsa) == lsa.age = MAXAGE

\* Mutant: any other sequence number is taken for a later one.
AnyOtherSeq(a, b) == IF a.seq # b.seq THEN -1 ELSE IF a.ck > b.ck THEN -1 ELSE 0

\* Which instance is more recent: -1 for a, 1 for b, 0 for neither.  A lower
\* checksum answers 0, not 1.
ospf6_lsa_compare(a, b) ==
    IF a.seq # b.seq THEN IF a.seq > b.seq THEN -1 ELSE 1
    ELSE IF a.ck # b.ck THEN IF a.ck > b.ck THEN -1 ELSE 0
    ELSE IF IS_MAXAGE(a) # IS_MAXAGE(b) THEN IF IS_MAXAGE(a) THEN -1 ELSE 1
    ELSE CASE a.age - b.age >= MAX_AGE_DIFF -> 1
           [] b.age - a.age >= MAX_AGE_DIFF -> -1
           [] OTHER -> 0

\* ospf6_lsa_age_current when one unit of time has passed: the age of an
\* instance is computed from its birth and stops at MAXAGE.
ospf6_lsa_age_current(lsa) ==
    [lsa EXCEPT !.age = IF @ >= MAXAGE THEN MAXAGE ELSE @ + 1]

\* Whether a newly built instance differs from the installed one; the
\* checksum stands for the body.
ospf6_lsa_is_differ(a, b) ==
    (IS_MAXAGE(a) # IS_MAXAGE(b)) \/ a.ck # b.ck

\* The list with k bound to lsa: an older entry of the same key is replaced.
ospf6_lsdb_add(k, lsa, lsdb) == (k :> lsa) @@ lsdb

ospf6_lsdb_remove(k, lsdb) == Restrict(lsdb, DOMAIN lsdb \ {k})

InLsdb(k, lsdb) == k \in DOMAIN lsdb

\* The numbers are signed: INITIAL_SEQUENCE_NUMBER, here 1, is the lowest but one, and
\* the number after MAX_SEQUENCE_NUMBER is the lowest.
ospf6_new_ls_seqnum(k, lsdb) ==
    IF InLsdb(k, lsdb) THEN (lsdb[k].seq + 1) % (MAX_SEQUENCE_NUMBER + 1) ELSE 1

\* The entries that fit in one packet of n: the trie has a fixed order, and
\* which one it is does not matter here.
FirstFit(lsdb, n) ==
    CHOOSE p \in {Restrict(lsdb, K) : K \in {J \in SUBSET DOMAIN lsdb :
                      \/ J = DOMAIN lsdb /\ Cardinality(J) <= n
                      \/ Cardinality(J) = n}} : TRUE
=============================================================================
