----------------------------- MODULE MCApiServer -----------------------------
(* Small instances of ApiServer. *)
EXTENDS ApiServer, TLC

CONSTANTS c1, c2, s1, s2, pwr, vol, a1, a2, a3

\* Two serversides with their own names.
TwoNames == (s1 :> "tv") @@ (s2 :> "amp")
OneName  == (s1 :> "tv")

\* QCMD does what QSTS does but for the table it reads, and of the code that the
\* device does not know, one kind of subscription is enough.
MCClientLines ==
    { line \in Lines : line.op # "QCMD" /\ (line.op = "STRT" => line.code = pwr) }

\* What a client may leave in the buffer: a query, which calls the device and
\* adds a node.
MCPartLines == { line \in Lines : line.op = "QURY" /\ line.code = pwr }

Symmetry == Permutations({a1, a2, a3}) \union Permutations({c1, c2})
=============================================================================
