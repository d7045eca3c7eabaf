----------------------------- MODULE MCObjects -----------------------------
(* Two tasks, two slots, every pooled class; three sequence ids.  Lines: every *)
(* way to stream four bytes into a value with a buffer that holds it and one  *)
(* that does not; strings that meet their bound; sizes that cut a code point  *)
(* at each of its bytes.  Ticks: three wraps of the count.  Loggers: every    *)
(* buffer with every sender and store, and the scratches.                     *)
EXTENDS Objects, TLC

CONSTANTS t1, t2

\* The tasks are interchangeable.
TaskSymmetry == Permutations(Tasks)

AllClasses == DOMAIN ClassNamed

Streamed == {"]", "F1", "C2", "c8"}

AuthorsCalls ==
  {String(<<a>>) : a \in Streamed} \cup {String(<<a, b>>) : a \in Streamed, b \in Streamed} \cup {Uint32}
    \cup {Bounded(s, MAX_VALUE) : s \in {<<"a", "F1">>, <<"a", "C2", "c8", "]">>}}

FirstHeader ==
  [facility |-> 0, severity |-> 7, timestamp |-> [outOfRange |-> {}, UtcOffset |-> 0],
   hostname |-> <<String(<<"a", "n">>)>>, appName |-> <<>>,
   processId |-> <<String(<<"sp">>), Uint32>>, msgId |-> <<>>]
SecondHeader ==
  [facility |-> 24, severity |-> 7, timestamp |-> [outOfRange |-> {"Day"}, UtcOffset |-> 0],
   hostname |-> <<String(<<"a", "n">>), Uint32, Uint32>>, appName |-> <<Uint32>>,
   processId |-> <<>>, msgId |-> <<"a", "a", "]">>]
ThirdHeader == [FirstHeader EXCEPT !.facility = 23, !.timestamp.UtcOffset = -1]

MessageOf(size, header, sd, streamed) == [size |-> size, header |-> header, sd |-> sd, budget |-> streamed]

SomeMessages ==
  [MetaSd |-> {MessageOf(size, FirstHeader, NULL, 4) : size \in {46, 95}},
   OriginSd |-> {MessageOf(110, ThirdHeader, NULL, 2)},
   TimeQualitySd |->
     {MessageOf(80, SecondHeader, sd, 2) : sd \in {"EventSd", "CustomSd"}}
       \cup {MessageOf(size, SecondHeader, NULL, 0) : size \in 36..46}]

FixedStrings == {<<>>, <<"a", "dq", "a", "a">>, <<"F1", "c8", "c8", "c8">>}

SomeTexts ==
  {<<>>, UTF8_BOM, UTF8_BOM \o <<"n">>, <<"a", "F1", "c8", "c8", "c8", "a">>,
   <<"a", "a", "F1", "c8", "c8", "c8">>, <<"E0", "c9", "cA">>, <<"E0", "cA", "c9", "ED">>}

SomeSenders ==
  {NoSender, NullSender}
    \cup {SenderOf("StreamSender", r, w) : r \in {"real", "NullResolver"}, w \in {"real", "NullStream"}}
    \cup {SenderOf("UdpSender", r, w) : r \in {"real", "NullResolver"}, w \in {"real", "NullDatagram"}}
ConfigurationOf(b, s, st, scr, sd, opt) ==
  [Buffer |-> b, Sender |-> s, Store |-> st, Scratch |-> scr, Sd |-> sd, optional |-> opt]
SomeConfigurations ==
  {ConfigurationOf(b, s, st, Missing, "array", OptionalParts) :
     b \in {Missing, "NullBuffer", "PassthroughBuffer", "CircularBuffer"},
     s \in SomeSenders, st \in {Missing, "NullStore"} \cup BlockStores}
  \cup {ConfigurationOf(b, SenderOf("UdpSender", "real", "real"), "NullStore", scr, "count without array", {}) :
     b \in {"PassthroughBuffer", "CircularBuffer"},
     scr \in {"SharedScratch", "SharedScratch over NullMutex", "SharedScratch over silent NullMutex"}}
MCConfigurations == {c \in SomeConfigurations : c.Buffer = "PassthroughBuffer" => c.Sender # NoSender}
=============================================================================
