---------------------------- MODULE MarantzStatus ----------------------------
(***************************************************************************)
(* The Marantz receiver driver, marantz_status.cc, on a backend_device.    *)
(*                                                                         *)
(* The receiver reports changes of its own accord, in four layers that are *)
(* switched on with "@AST:" and a hexadecimal mask of all four; it answers *)
(* with the mask it took.  The driver asks for layer 1 when it opens the   *)
(* line and for another layer when it learns of a value of that layer,     *)
(* unless it believes the layer is on.  It writes the mask it believes in  *)
(* with the new layer added, so a belief that is behind, or was read       *)
(* wrongly, switches layers off.                                           *)
(*                                                                         *)
(* The receiver is external: it takes a message as it is written or misses *)
(* it, and what it says takes time and may be lost.                        *)
(***************************************************************************)
EXTENDS BackendDevice

CONSTANTS
    AstOf,         \* per set of layers, the message that switches on exactly these
    Ask,           \* the other messages
    AnswerTo,      \* per other message, the code the receiver answers with
    Info,          \* the codes of the infos table, "AST" excepted
    LayerOf,       \* per code, its layer, or 0
    NoUpdateFunc   \* the codes whose update_func is NULL

Layers == 1 .. 4

ASSUME MarantzAssumption ==
    /\ AstOf \in [SUBSET Layers -> Msg]
    /\ \A s, t \in SUBSET Layers : AstOf[s] = AstOf[t] => s = t
    /\ Ask = Msg \ { AstOf[s] : s \in SUBSET Layers }
    /\ AnswerTo \in [Ask -> Info]
    /\ LayerOf \in [Info -> Layers \union {0}]
    /\ NoUpdateFunc \subseteq Info

VARIABLES
    auto_status_feedback_layer,  \* the layers the driver believes are on
    mask,        \* receiver: the layers that are on
    incoming,    \* packets on their way from the receiver
    inStep       \* history: no answer to an "@AST:" since the last one the receiver
                 \* took has been lost, and the driver has not been reopened since

maVars == <<output, write_ev, loopexit, daemon, rest, wrote,
            auto_status_feedback_layer, mask, incoming, inStep>>

Ast(layers)  == [ast |-> layers]
Value(code)  == [code |-> code]
Packets      == [ast : SUBSET Layers] \union [code : Info]
IsAst(p)     == "ast" \in DOMAIN p

MaTypeOK ==
    /\ TypeOK
    /\ auto_status_feedback_layer \in SUBSET Layers
    /\ mask \in SUBSET Layers
    /\ incoming \in Seq(Packets)
    /\ inStep \in BOOLEAN

MaInit ==
    /\ Init
    /\ auto_status_feedback_layer = {}
    /\ mask \in SUBSET Layers
    /\ incoming = <<>>
    /\ inStep = FALSE

-----------------------------------------------------------------------------
(* The mask. *)

\* The bit of each layer in the mask.
Bit == <<1, 2, 4, 8>>

Number(layers) ==
    LET bit(l) == IF l \in layers THEN Bit[l] ELSE 0
    IN  bit(1) + bit(2) + bit(3) + bit(4)

\* What update_auto_status_feedback makes of the digit: A to F count from 0.
Digit(n) == IF n >= 10 THEN n - 10 ELSE n

Parsed(layers) ==
    { l \in Layers : (Digit(Number(layers)) \div Bit[l]) % 2 = 1 }

\* Mutant of Wanted: the mask names the new layer only.
WantedAlone(layer) == {layer}

\* The mask enable_auto_status_layer asks for.
Wanted(layer) == auto_status_feedback_layer \union {layer}

-----------------------------------------------------------------------------
(* The receiver, when m is written; in is what is still on its way then. *)

Takes(m, in) ==
    \/ \E layers \in SUBSET Layers :
          /\ m = AstOf[layers]
          /\ mask' = layers
          /\ incoming' = Append(in, Ast(layers))
          /\ inStep' = TRUE
    \/ /\ m \in Ask
       /\ incoming' = Append(in, Value(AnswerTo[m]))
       /\ UNCHANGED <<mask, inStep>>

Misses(in) == incoming' = in /\ UNCHANGED <<mask, inStep>>

\* writecb() of the list o, to a receiver that takes what is written or not.
Transmit(o, in) ==
    /\ WriteCb(o)
    /\ \/ Misses(in)
       \/ o.send_iter # End /\ Takes(NodeAt(o, o.send_iter).data, in)

\* send() of m, the list being o.
MaSendOn(o, a, m, in) ==
    /\ SendOn(o, a, m)
    /\ \/ Misses(in)
       \/ /\ write_ev = NotPending
          /\ LET pushed == Push(o, [addr |-> a, data |-> m])
             IN  Takes(NodeAt(pushed, pushed.send_iter).data, in)

-----------------------------------------------------------------------------
(* Actions. *)

\* Closing and open(): the line is new, nothing is believed, layer 1 is asked for.
MaOpen ==
    /\ daemon = "starting" \/ (daemon = "running" /\ loopexit)
    /\ \E a \in Addr : WriteCb(Push(EmptyOutput, [addr |-> a, data |-> AstOf[{1}]]))
    /\ \E in \in {incoming, <<>>} :
          \/ incoming' = in /\ mask' = mask /\ inStep' = FALSE
          \/ Takes(AstOf[{1}], in)
    /\ loopexit' = FALSE
    /\ daemon' = "running"
    /\ auto_status_feedback_layer' = {}

\* send_command() or send_status_request().
MaSend(m) ==
    /\ daemon = "running"
    /\ \E a \in Addr \ Addrs(output) : MaSendOn(output, a, m, incoming)
    /\ UNCHANGED <<loopexit, daemon, auto_status_feedback_layer>>

MaWriteTimeout ==
    /\ daemon = "running"
    /\ write_ev = 0
    /\ Transmit(output, incoming)
    /\ UNCHANGED <<loopexit, daemon, auto_status_feedback_layer>>

\* update_status() first takes everything written off the list.
Unawaited == PopN(output, SentLen(output))

\* Mutant of UpdateFeedback: layers are switched on only.
UpdateFeedbackAdds ==
    /\ daemon = "running"
    /\ incoming # <<>> /\ IsAst(Head(incoming))
    /\ auto_status_feedback_layer' = auto_status_feedback_layer \union Parsed(Head(incoming).ast)
    /\ output' = Unawaited
    /\ Misses(Tail(incoming))
    /\ UNCHANGED <<write_ev, loopexit, daemon, rest, wrote>>

\* update_status() of the answer to an "@AST:".
UpdateFeedback ==
    /\ daemon = "running"
    /\ incoming # <<>> /\ IsAst(Head(incoming))
    /\ auto_status_feedback_layer' = Parsed(Head(incoming).ast)
    /\ output' = Unawaited
    /\ Misses(Tail(incoming))
    /\ UNCHANGED <<write_ev, loopexit, daemon, rest, wrote>>

\* update_status() of a value, of a layer that is believed off or not.
UpdateValue ==
    /\ daemon = "running"
    /\ incoming # <<>> /\ ~IsAst(Head(incoming))
    /\ Head(incoming).code \notin NoUpdateFunc
    /\ LET layer == LayerOf[Head(incoming).code]
       IN  IF layer \in Layers \ auto_status_feedback_layer
             THEN \E a \in Addr \ Addrs(Unawaited) :
                     MaSendOn(Unawaited, a, AstOf[Wanted(layer)], Tail(incoming))
             ELSE /\ output' = Unawaited
                  /\ Misses(Tail(incoming))
                  /\ UNCHANGED <<write_ev, rest, wrote>>
    /\ UNCHANGED <<loopexit, daemon, auto_status_feedback_layer>>

\* update_status() of a code that has no update function: it is called all the same.
UpdateNull ==
    /\ daemon = "running"
    /\ incoming # <<>> /\ ~IsAst(Head(incoming))
    /\ Head(incoming).code \in NoUpdateFunc
    /\ Exit
    /\ Misses(<<>>)
    /\ UNCHANGED auto_status_feedback_layer

\* The receiver reports a value of a layer that is on.
Report(code) ==
    /\ LayerOf[code] \in mask
    /\ Misses(Append(incoming, Value(code)))
    /\ UNCHANGED <<vars, auto_status_feedback_layer>>

\* A packet is lost on the way.
LosePacket(i) ==
    /\ incoming' = SubSeq(incoming, 1, i - 1) \o SubSeq(incoming, i + 1, Len(incoming))
    /\ inStep' = (inStep /\ ~IsAst(incoming[i]))
    /\ UNCHANGED <<vars, auto_status_feedback_layer, mask>>

MaEof  == Eof /\ UNCHANGED <<auto_status_feedback_layer, mask, incoming, inStep>>
MaTick == Tick /\ UNCHANGED <<auto_status_feedback_layer, mask, incoming, inStep>>
MaExit == Exit /\ Misses(<<>>) /\ UNCHANGED auto_status_feedback_layer

MaNext ==
    \/ MaOpen
    \/ \E m \in Ask : MaSend(m)
    \/ MaWriteTimeout
    \/ UpdateFeedback
    \/ UpdateValue
    \/ UpdateNull
    \/ \E code \in Info : Report(code)
    \/ \E i \in DOMAIN incoming : LosePacket(i)
    \/ MaEof
    \/ MaTick
    \/ MaExit

MaSpec == MaInit /\ [][MaNext]_maVars

-----------------------------------------------------------------------------
(* Correctness. *)

\* No answer to an "@AST:" is in a sequence of packets, or the last one is mask m.
NoAst(in) == \A i \in DOMAIN in : ~IsAst(in[i])

LastAst(in, m) ==
    \A i \in DOMAIN in :
        (IsAst(in[i]) /\ \A j \in DOMAIN in : j > i => ~IsAst(in[j])) => in[i].ast = m

NoAstUnsent == \A i \in DOMAIN UnsentNodes(output) : UnsentNodes(output)[i].data \in Ask

\* Although requests for masks, their answers and values cross each other on the
\* line, and requests may be missed: when no answer is on its way and none was
\* lost, the driver believes of the receiver's layers what the digit says.
BeliefFollowsReceiver ==
    (daemon = "running" /\ inStep /\ NoAst(incoming))
        => auto_status_feedback_layer = Parsed(mask)

\* What makes it so: the last answer on its way, if there is one, has the mask of
\* the receiver.  With the types and the invariant of the device, which open() and
\* a request from inside the read loop keep, this is inductive.
LastAnswerTrue == (daemon = "running" /\ inStep) => LastAst(incoming, mask)

MaInv == MaTypeOK /\ Inv /\ LastAnswerTrue /\ BeliefFollowsReceiver

\* Layer 1, which carries power and volume, is on for the driver whenever it is on
\* at the receiver: the misreading of A to F does not touch it.
MainLayerKnown ==
    (daemon = "running" /\ inStep /\ NoAst(incoming)) =>
        (1 \in auto_status_feedback_layer <=> 1 \in mask)

\* Asking for one more layer switches none off, when no other request is on its way
\* and the mask is one that is read correctly.
NoLayerDropped ==
    [][ (/\ daemon = "running" /\ ~loopexit
         /\ inStep /\ NoAst(incoming) /\ NoAstUnsent
         /\ Number(mask) < 10)
          => mask \subseteq mask' ]_maVars
=============================================================================
