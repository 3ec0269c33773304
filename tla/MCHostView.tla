----------------------------- MODULE MCHostView -----------------------------
(* What the host sees of the gateway: its two logs and who reads them, the   *)
(* completions in them, and the web UI.  They share no state: a behaviour    *)
(* runs one of the four.                                                     *)
EXTENDS CaptureReader, RequestLog, StreamAssembly, WebUi

CONSTANTS p1, p2, h1, h2, h3
VARIABLE focus

Exchange(path1, ok, body) == [path |-> path1, status |-> ok, request |-> body]
MCCalls ==
    {Exchange("llm", "ok", "object"), Exchange("llm", "error", "object"),
     Exchange("llm", "ok", "outsized"), Exchange("other", "ok", "object")}

Json(says, written) == [says |-> says, written |-> written]
MCMessages ==
    {[text |-> <<"t", "u">>, model |-> "m", stop |-> "end",
      tools |-> <<[name |-> "f", input |-> <<Json("a", "close"), Json("b", "wide")>>],
                  [name |-> "g", input |-> <<Json("c", "dumps"), Json("a", "close")>>]>>],
     [text |-> <<"t">>, model |-> "m", stop |-> "end", tools |-> <<>>]}

Pasted(lines1) == [Nobody EXCEPT !.host_ok = TRUE, !.origin_ok = TRUE, !.authed = TRUE,
                                 !.headers = TRUE, !.lines = lines1]
MCRequests ==
    {Pasted(<<h1, h2, h1>>), Pasted(<<NoHost, h3, h1>>), Pasted(<<NoHost>>)}
    \cup {[Pasted(<<h1>>) EXCEPT !.host_ok = FALSE], [Pasted(<<h1>>) EXCEPT !.origin_ok = FALSE],
          [Pasted(<<h1>>) EXCEPT !.authed = FALSE], [Pasted(<<h1>>) EXCEPT !.headers = FALSE]}

AtRest ==
    /\ focus # "capture" => enabled = TRUE
    /\ focus # "stream" => dialect = "openai" /\ message.tools = <<>>

MCInit ==
    /\ focus \in {"capture", "requests", "stream", "webui"}
    /\ CaptureInit /\ ReaderInit /\ RequestLogInit /\ StreamInit /\ WebUiInit
    /\ AtRest

MCNext ==
    /\ UNCHANGED focus
    /\ IF focus = "capture" THEN ReaderNext ELSE UNCHANGED <<captureVars, readerVars>>
    /\ IF focus = "requests" THEN RequestLogNext ELSE UNCHANGED requestLogVars
    /\ IF focus = "stream" THEN StreamNext ELSE UNCHANGED streamVars
    /\ IF focus = "webui" THEN WebUiNext ELSE UNCHANGED uiVars

MCSpec ==
    MCInit /\ [][MCNext]_<<captureVars, readerVars, requestLogVars, streamVars, uiVars, focus>>
=============================================================================
