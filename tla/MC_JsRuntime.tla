----------------------------- MODULE MC_JsRuntime -----------------------------
(***************************************************************************)
(* JsRuntime for TLC: two accounts, a1 opted in to the one app and a2    *)
(* not, global and local schemas of one key and two keys to write, so a   *)
(* second key overflows a schema after it has been written.  A call is a  *)
(* payment, a payment to oneself, an app call by a1 or a2, or a group of  *)
(* an app call and a payment, with a program that writes nothing, writes  *)
(* k1 or k2 globally or locally, or writes k1 and rejects.                *)
(***************************************************************************)
EXTENDS JsRuntime

CONSTANTS a1, a2, k1, k2, v

MCAddr == {a1, a2}
MCKeys == {k1, k2}
MCInitAmount == [a \in MCAddr |-> IF a = a1 THEN 2 ELSE 0]

Pay(f, t) == [type |-> "pay", from |-> f, to |-> t, amt |-> 1, apid |-> 0]
AppCall(f) == [type |-> "call", from |-> f, to |-> f, amt |-> 0, apid |-> 1]
Prog(eff, key, acc) == [eff |-> eff, key |-> key, val |-> v, accept |-> acc]

MCTxnParams == {<<Pay(a1, a2)>>, <<Pay(a1, a1)>>, <<AppCall(a1)>>, <<AppCall(a2)>>,
                <<AppCall(a1), Pay(a2, a1)>>}
MCPrograms == {Prog("none", k1, TRUE), Prog("global", k1, TRUE), Prog("global", k2, TRUE),
               Prog("global", k1, FALSE), Prog("local", k1, TRUE), Prog("local", k2, TRUE)}
MCRequests == [txns : MCTxnParams, o : MCPrograms]
====
