---------------------------- MODULE MC_AppRuntime ----------------------------
(***************************************************************************)
(* AppRuntime for TLC: two accounts, at most two apps, one key and two     *)
(* values, so that a write can be told from an older one; groups of one   *)
(* or two transactions.                                                    *)
(***************************************************************************)
EXTENDS AppRuntime

CONSTANTS a1, a2, k, v1, v2

MCAddr == {a1, a2}
MCVals == {v1, v2}
\* one value: for properties that do not tell writes apart
MCVal == {v1}

Pay(s, to, n) == [type |-> "pay", snd |-> s, app |-> 0, to |-> to, amt |-> n]
AppCall(kind, s, i) == [type |-> kind, snd |-> s, app |-> i, to |-> s, amt |-> 0]

\* every single app call; a payment and a payment to oneself; and groups:
\* the same app deleted twice, a payment before a call (whose program runs
\* with ctx.tx the payment), and calls of two apps (both programs write the
\* first one's)
MCTxnGroups ==
  {<<AppCall(kind, a, i)>> : kind \in CallKinds, a \in MCAddr, i \in 1..2}
  \cup {<<Pay(a1, a2, 1)>>, <<Pay(a2, a2, 1)>>,
        <<AppCall("deleteApp", a1, 1), AppCall("deleteApp", a1, 1)>>,
        <<Pay(a2, a1, 1), AppCall("noop", a2, 1)>>,
        <<AppCall("noop", a1, 1), AppCall("noop", a2, 2)>>}
====
