------------------------------ MODULE Ospf6Db ------------------------------
(***************************************************************************)
(* The checkpoints of a sibling in Riak: ospf6_db.c, lib/db.c and the      *)
(* parser of json_parser.y.  A bucket maps the keys of a replica to the    *)
(* messages it processed; the text of a message is what "%d" prints of its *)
(* fields, and reading it back is what the lexer makes of that text.       *)
(* A message is its type, the router id of its header and a parameter: the *)
(* HelloInterval of a Hello and the MTU of a DbDesc.  The list in its body *)
(* is left out.                                                            *)
(* Riak itself is external: it answers, and keeps what was put.            *)
(***************************************************************************)
EXTENDS Integers, Sequences, FiniteSets, Functions

CONSTANT Word   \* the number of values of an unsigned int

ASSUME WordAssumption == Word \in Nat /\ Word % 2 = 0 /\ Word > 2

Types == {"HELLO", "DBDESC", "LSUPDATE"}
Numbers == 0 .. Word - 1
Shorts == 0 .. Word \div 2 - 1   \* an unsigned short, which "%d" prints as it is
Messages == [type : Types, router_id : Numbers, param : Shorts]

EmptyBucket == [x \in {} |-> 0]

\* sprintf(..., "%d", ...) of an unsigned value
Printed(v) == IF v < Word \div 2 THEN v ELSE v - Word

\* The lexer knows digits only: the sign is a "mystery character" and is dropped.
T_NUMBER(n) == IF n < 0 THEN -n ELSE n

ospf6_db_json_header(oh) == [type |-> oh.type, router_id |-> Printed(oh.router_id)]

\* external: riack_put of the text of a message, and of the key "cur_xid"
riack_put(b, xid, text) == [x \in DOMAIN b \cup {xid} |-> IF x = xid THEN text ELSE b[x]]

ospf6_db_put_hello(b, xid, hello) ==
  LET header == ospf6_db_json_header(hello)
  IN riack_put(b, xid, [type |-> header.type, router_id |-> header.router_id,
                        param |-> Printed(hello.param)])

ospf6_db_put_dbdesc(b, xid, dbdesc) ==
  LET header == ospf6_db_json_header(dbdesc)
  IN riack_put(b, xid, [type |-> header.type, router_id |-> header.router_id,
                        param |-> Printed(dbdesc.param)])

json_parse_header(text) == [type |-> text.type, router_id |-> T_NUMBER(text.router_id)]

json_parse_body(text) == [param |-> T_NUMBER(text.param)]

\* ospf6_db_get and ospf6_db_fill_body
ospf6_db_get(b, xid) ==
  LET header == json_parse_header(b[xid])
  IN [type |-> header.type, router_id |-> header.router_id, param |-> json_parse_body(b[xid]).param]

CURRENT_XID == -1   \* the key "cur_xid", which is in every bucket that is not empty

\* What keys_compare may answer for "a is not after b": it compares numbers, and
\* leaves a number it cannot read as it was on the stack.
NotAfter(a, b) ==
  IF CURRENT_XID \in {a, b} THEN BOOLEAN ELSE {a <= b}

\* What merging two sorted halves s and t may give.
Merges[s \in Seq(Int), t \in Seq(Int)] ==
  IF s = <<>> THEN {t}
  ELSE IF t = <<>> THEN {s}
  ELSE UNION {IF first THEN {<<Head(s)>> \o m : m \in Merges[Tail(s), t]}
                       ELSE {<<Head(t)>> \o m : m \in Merges[s, Tail(t)]}
                : first \in NotAfter(Head(s), Head(t))}

\* external: the merge sort of the C library
qsort[s \in Seq(Int)] ==
  LET n == Len(s) \div 2
  IN IF Len(s) <= 1 THEN {s}
     ELSE UNION {Merges[x, y] : x \in qsort[SubSeq(s, 1, n)], y \in qsort[SubSeq(s, n + 1, Len(s))]}

\* The orders in which the members of a finite set may come.
Orders(S) == {s \in [1..Cardinality(S) -> S] : s \in Seq(S) /\ Range(s) = S}

\* The keys of a bucket come in any order and are sorted: the orders of them that
\* the sort may answer.
db_list_keys(b) ==
  LET orders == Orders(DOMAIN b \cup {CURRENT_XID})
      sorted == UNION {qsort[s] : s \in orders}
  IN IF DOMAIN b = {} THEN {<<>>} ELSE orders \cap sorted

\* The sort of keys that are all numbers, on which keys_compare is an order.
Ascending(S) == {s \in Orders(S) : \A i, j \in DOMAIN s : i < j => s[i] < s[j]}

\* Mutant: the last key is left out.
UpToLast(b, start_xid, end_xid) ==
  Ascending({x \in DOMAIN b : Printed(start_xid) <= x /\ x < Printed(end_xid)})

\* Only messages have the index "index1_int", which is compared as an integer.
db_range_keys(b, start_xid, end_xid) ==
  Ascending({x \in DOMAIN b : Printed(start_xid) <= x /\ x <= Printed(end_xid)})

\* Every message from a router takes the next id.
db_get_and_set(id) == id + 1
=============================================================================
