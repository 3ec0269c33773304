--------------------------- MODULE StreamAssembly ---------------------------
(***************************************************************************)
(* flywheel_addon.py: a completion that came as a stream of events is put  *)
(* together again into what the same completion looks like as JSON.        *)
(*                                                                         *)
(* A server streams one message in one of the two dialects: pieces of text *)
(* and of the arguments of tool calls in any interleaving, the arguments   *)
(* of a call after its name.  A text is a sequence of pieces; the arguments *)
(* of a call are JSON, so a piece of them says something and is written in *)
(* one of the ways JSON allows (spaces, escapes).                          *)
(***************************************************************************)
EXTENDS Naturals, Sequences, FiniteSets, SequencesExt

CONSTANTS
    Messages, \* what a server may answer
    Unset     \* Python's None

Pieces  == STRING
JsonPieces == [says : STRING, written : STRING]
\* A call has arguments, "{}" if nothing else.
Tool    == [name : STRING, input : Seq(JsonPieces) \ {<<>>}]
Message == [text : Seq(Pieces), tools : Seq(Tool), model : STRING, stop : STRING]

\* A piece of a tool call, as OpenAI sends it.
CallDelta == [index : Nat, name : STRING \cup {Unset}, arguments : Seq(JsonPieces)]

ASSUME StreamAssumption ==
    /\ Messages \subseteq Message
    /\ Unset \notin STRING /\ Unset \notin CallDelta

VARIABLES
    dialect, \* "anthropic" or "openai"
    message, \* what the server streams
    events,  \* what has come so far
    toldText, toldTools, \* how many pieces are out, of the text and each call
    ending   \* "no", "stopped" with a reason, "counted" with the usage

streamVars == <<dialect, message, events, toldText, toldTools, ending>>

-----------------------------------------------------------------------------
(* The addon: a fold over the events.                                      *)

Empty == [text |-> <<>>, tools |-> <<>>, usage |-> {}, stop |-> Unset, model |-> Unset]

WithTool(tools, index, tool) ==
    [i \in DOMAIN tools \cup {index} |-> IF i = index THEN tool ELSE tools[i]]

NewTool == [name |-> Unset, input |-> <<>>]

\* A variant that adds to the last call there is, for AssembledIsMessage.
GrownLast(tools, index, name, input) ==
    LET last == IF tools = <<>> \/ name # Unset THEN index
                ELSE CHOOSE i \in DOMAIN tools : \A j \in DOMAIN tools : j <= i
        tool == IF last \in DOMAIN tools THEN tools[last] ELSE NewTool
    IN  WithTool(tools, last, [name |-> IF name = Unset THEN tool.name ELSE name,
                               input |-> tool.input \o input])

\* The call that an index names gets a name, or its arguments grow.
Grown(tools, index, name, input) ==
    LET tool == IF index \in DOMAIN tools THEN tools[index] ELSE NewTool
    IN  WithTool(tools, index, [name |-> IF name = Unset THEN tool.name ELSE name,
                                input |-> tool.input \o input])

AnthropicEvent(acc, ev) ==
    CASE ev.type = "message_start" ->
           [acc EXCEPT !.model = ev.model, !.usage = @ \cup ev.usage]
      [] ev.type = "content_block_start" ->
           [acc EXCEPT !.tools = WithTool(@, ev.index, [name |-> ev.name, input |-> <<>>])]
      [] ev.type = "text_delta"       -> [acc EXCEPT !.text = Append(@, ev.piece)]
      [] ev.type = "input_json_delta" ->
           [acc EXCEPT !.tools = Grown(@, ev.index, Unset, <<ev.piece>>)]
      [] ev.type = "message_delta" ->
           [acc EXCEPT !.stop = ev.stop, !.usage = @ \cup ev.usage]

\* A chunk has one choice or none; what a choice does not say leaves the rest
\* as it was, but for the reason to stop, which is null until there is one.
OpenAiChoice(acc, choice) ==
    [acc EXCEPT
        !.text  = IF choice.content = Unset THEN @ ELSE Append(@, choice.content),
        !.tools = IF choice.call = Unset THEN @ ELSE
                      Grown(@, choice.call.index, choice.call.name, choice.call.arguments),
        !.stop  = choice.finish_reason]

OpenAiEvent(acc, ev) ==
    LET counted == [acc EXCEPT !.model = ev.model, !.usage = IF ev.usage = {} THEN @ ELSE ev.usage]
        chosen[i \in 0 .. Len(ev.choices)] ==
            IF i = 0 THEN counted ELSE OpenAiChoice(chosen[i - 1], ev.choices[i])
    IN  chosen[Len(ev.choices)]

Added(acc, ev, anthropic) == IF anthropic THEN AnthropicEvent(acc, ev) ELSE OpenAiEvent(acc, ev)

\* What has been collected after each event.
Collected(evs, anthropic) ==
    LET acc[i \in 0 .. Len(evs)] ==
            IF i = 0 THEN Empty ELSE Added(acc[i - 1], evs[i], anthropic)
    IN  acc

\* The i-th of a set of numbers.
Nth(S, i) == CHOOSE n \in S : Cardinality({m \in S : m <= n}) = i

\* Anthropic's events have a type.  The calls come in the order of their indices.
Assembled(evs) ==
    LET anthropic == \E i \in DOMAIN evs : i <= 3 /\ "type" \in DOMAIN evs[i]
        acc == Collected(evs, anthropic)[Len(evs)]
    IN  [acc EXCEPT !.tools = [i \in 1 .. Cardinality(DOMAIN @) |-> @[Nth(DOMAIN @, i)]]]

\* json.dumps writes what the pieces say in a way of its own.
Dumped(input) == [i \in DOMAIN input |-> [input[i] EXCEPT !.written = "dumps"]]

\* Calls, by what their arguments say.
Meant(tools) == [i \in DOMAIN tools |-> [tools[i] EXCEPT !.input = Dumped(@)]]

\* What _collect_*_json makes of the same message: in Anthropic's, the arguments
\* are an object and are written anew; in OpenAI's they are a text already.
AsJson(m, anthropic) ==
    [text |-> m.text, tools |-> IF anthropic THEN Meant(m.tools) ELSE m.tools,
     usage |-> {"in", "out"}, stop |-> m.stop, model |-> m.model]

-----------------------------------------------------------------------------
(* The server: external, from what the addon expects of one.               *)

Chunk(choices, usage) == [model |-> message.model, usage |-> usage, choices |-> choices]
Says(content, call) ==
    Chunk(<<[content |-> content, call |-> call, finish_reason |-> Unset]>>, {})
Call(i, name, arguments) == [index |-> i, name |-> name, arguments |-> arguments]

NotStarted == 0 \* of a call; one more than the pieces that are out once it is

StreamInit ==
    /\ dialect \in {"anthropic", "openai"}
    /\ message \in Messages
    /\ events = IF dialect = "openai" THEN <<>>
                ELSE <<[type |-> "message_start", model |-> message.model, usage |-> {"in"}]>>
    /\ toldText = 0
    /\ toldTools = [i \in DOMAIN message.tools |-> NotStarted]
    /\ ending = "no"

Sends(anthropic, openai) ==
    events' = Append(events, IF dialect = "anthropic" THEN anthropic ELSE openai)

SendText ==
    LET piece == message.text[toldText + 1] IN
    /\ ending = "no" /\ toldText < Len(message.text)
    /\ Sends([type |-> "text_delta", piece |-> piece], Says(piece, Unset))
    /\ toldText' = toldText + 1
    /\ UNCHANGED <<dialect, message, toldTools, ending>>

StartCall(i) ==
    LET name == message.tools[i].name IN
    /\ ending = "no" /\ toldTools[i] = NotStarted
    /\ Sends([type |-> "content_block_start", index |-> i, name |-> name],
             Says(Unset, Call(i, name, <<>>)))
    /\ toldTools' = [toldTools EXCEPT ![i] = 1]
    /\ UNCHANGED <<dialect, message, toldText, ending>>

SendArguments(i) ==
    LET piece == message.tools[i].input[toldTools[i]] IN
    /\ ending = "no" /\ toldTools[i] \in DOMAIN message.tools[i].input
    /\ Sends([type |-> "input_json_delta", index |-> i, piece |-> piece],
             Says(Unset, Call(i, Unset, <<piece>>)))
    /\ toldTools' = [toldTools EXCEPT ![i] = @ + 1]
    /\ UNCHANGED <<dialect, message, toldText, ending>>

Stop ==
    /\ ending = "no" /\ toldText = Len(message.text)
    /\ \A i \in DOMAIN toldTools : toldTools[i] = Len(message.tools[i].input) + 1
    /\ Sends([type |-> "message_delta", stop |-> message.stop, usage |-> {"out"}],
             Chunk(<<[content |-> Unset, call |-> Unset, finish_reason |-> message.stop]>>, {}))
    /\ ending' = IF dialect = "anthropic" THEN "counted" ELSE "stopped"
    /\ UNCHANGED <<dialect, message, toldText, toldTools>>

\* OpenAI's last chunk has the usage and no choices.
Count ==
    /\ ending = "stopped"
    /\ events' = Append(events, Chunk(<<>>, {"in", "out"}))
    /\ ending' = "counted"
    /\ UNCHANGED <<dialect, message, toldText, toldTools>>

StreamNext ==
    \/ SendText \/ Stop \/ Count
    \/ \E i \in DOMAIN toldTools : StartCall(i) \/ SendArguments(i)

StreamSpec == StreamInit /\ [][StreamNext]_streamVars

-----------------------------------------------------------------------------
(* Properties.                                                             *)

\* "in the same shape": a stream that came whole gives the completion that the
\* JSON answer gives, up to the way the arguments of Anthropic's calls are written
\* (OpenAI's are equal to the letter), and one that was cut (BODY_MAX, a lost
\* connection) gives a part of it: the text so far, and of every call its name
\* and the arguments so far as the server wrote them.
AssembledIsMessage ==
    LET got   == Assembled(events)
        whole == AsJson(message, dialect = "anthropic")
    IN  /\ ending = "counted" =>
              /\ [got EXCEPT !.tools = Meant(@)] = [whole EXCEPT !.tools = Meant(@)]
              /\ dialect = "openai" => got = whole
        /\ IsPrefix(got.text, message.text)
        /\ \A i \in DOMAIN got.tools : \E j \in DOMAIN message.tools :
              /\ got.tools[i].name = message.tools[j].name
              /\ IsPrefix(got.tools[i].input, message.tools[j].input)
=============================================================================
