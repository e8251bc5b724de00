---------------------------- MODULE MCEchoWorker ----------------------------
(* No text; a number that loses its only digit; one that loses a digit,    *)
(* without and with an empty line in the text after the early end. Stale   *)
(* content that completes headers, or is itself taken for some with text   *)
EXTENDS EchoWorker

SomeRequests ==
  { <<Line, EmptyLine>>,
    <<1, EmptyLine, EmptyLine>>,
    <<3, EmptyLine, Line, Line, Line>>,
    <<3, EmptyLine, Line, EmptyLine, Line>> }

SomeRemains == { <<>>, <<EmptyLine>>, <<3, EmptyLine, Line>> }
=============================================================================
