-------------------------------- MODULE Frames --------------------------------
(***************************************************************************)
(* The frames of the JSON-RPC transports (apps/gks-server/src/server.mjs): *)
(* how a byte stream is cut into frames, how a frame is scanned, and which *)
(* request it is.  Text is a sequence of JSON tokens; a token stands for   *)
(* the characters it is written with and has length 1.                     *)
(***************************************************************************)
EXTENDS Integers, Sequences, FiniteSets

CONSTANTS Strings,          \* string tokens, by their decoded value
          SafeNumbers,      \* number tokens JavaScript represents exactly
          MaxDepth,         \* maxJsonDepth
          NormalFrame,      \* normalFrameBytes, in tokens
          PipelineFrame,    \* pipelineFrameBytes, in tokens
          PipelineMethods   \* the tool calls whose name starts gks_pipeline_

NewLine == "\n"
CarriageReturn == "\r"
Whitespace == {" ", CarriageReturn}
Literals == {"true", "false", "null"}
Closed == "end of text"         \* no token

\* A string token is none of the other tokens.
ASSUME StringsAssumption ==
    Strings \cap ({"{", "}", "[", "]", ":", ",", NewLine, Closed} \cup Whitespace \cup Literals) = {}

(***************************************************************************)
(* scanJsonValue: 0 for a refusal, or the position after the value.  The   *)
(* two loops of the code, over members and over elements, are functions of *)
(* the position and, for members, of the keys seen so far.                 *)
(***************************************************************************)
TokenAt(text, i) == IF i \in 1 .. Len(text) THEN text[i] ELSE Closed

skipWhitespace(text, i) ==
    CHOOSE j \in i .. (Len(text) + i) :
        /\ TokenAt(text, j) \notin Whitespace
        /\ \A k \in i .. (j - 1) : TokenAt(text, k) \in Whitespace

Refusal == 0

scanJsonValue(text, start, level) ==
    LET Token(i) == TokenAt(text, i)
        Skip(i) == skipWhitespace(text, i)
        scan[what \in {"value", "member", "element"}, i \in 1 .. (Len(text) + 2),
             depth \in 0 .. (MaxDepth + 1), keys \in SUBSET Strings] ==
          LET After(next, close, again(_)) ==
                \* past one member or element: the closing bracket or a comma
                LET j == Skip(next)
                IN  IF next = Refusal THEN Refusal
                    ELSE IF Token(j) = close THEN j + 1
                    ELSE IF Token(j) = "," THEN again(Skip(j + 1))
                    ELSE Refusal
          IN
          CASE what = "value" ->
                 LET j == Skip(i)
                     k == Skip(j + 1)
                 IN  IF depth > MaxDepth THEN Refusal
                     ELSE IF Token(j) \in Strings \cup SafeNumbers \cup Literals THEN j + 1
                     ELSE IF Token(j) = "{"
                       THEN IF Token(k) = "}" THEN k + 1 ELSE scan["member", k, depth, {}]
                     ELSE IF Token(j) = "["
                       THEN IF Token(k) = "]" THEN k + 1 ELSE scan["element", k, depth, {}]
                     ELSE Refusal
            [] what = "member" ->
                 LET key == Token(i)
                     colon == Skip(i + 1)
                 IN  IF key \notin Strings \/ key \in keys \/ Token(colon) # ":"
                     THEN Refusal
                     ELSE After(scan["value", colon + 1, depth + 1, {}], "}",
                                LAMBDA j : scan["member", j, depth, keys \cup {key}])
            [] OTHER ->
                 After(scan["value", i, depth + 1, {}], "]",
                       LAMBDA j : scan["element", j, depth, {}])
    IN  scan["value", start, level, {}]

\* The whole text is one value, but for white space around it.
Scanned(text) ==
    LET next == scanJsonValue(text, 1, 0)
    IN  next # Refusal /\ skipWhitespace(text, next) = Len(text) + 1

(***************************************************************************)
(* parseBoundedFrame: the request of a frame.  Of an accepted object only  *)
(* the version, the id and the method are looked at; the parameters of a   *)
(* call are part of its method token.                                      *)
(***************************************************************************)
Compact(text) == SelectSeq(text, LAMBDA t : t \notin Whitespace)

Level(text, i) ==
    Cardinality({j \in 1 .. (i - 1) : text[j] \in {"{", "["}})
      - Cardinality({j \in 1 .. (i - 1) : text[j] \in {"}", "]"}})

\* The value of a key of the outermost object, Closed when it has none.
Field(text, key) ==
    LET After(i) == skipWhitespace(text, i + 1)
        at == {i \in DOMAIN text :
                 Level(text, i) = 1 /\ text[i] = key /\ TokenAt(text, After(i)) = ":"}
    IN  IF at = {} THEN Closed ELSE TokenAt(text, After(After(CHOOSE i \in at : TRUE)))

usableRequestId(id) == IF id \in Strings \cup SafeNumbers THEN id ELSE "null"

\* code is "request" for a request, else it tells why there is none.
parseBoundedFrame(frame) ==
    LET Fault(code, id) == [code |-> code, id |-> id, method |-> Closed]
    IN  IF Len(frame) > PipelineFrame THEN Fault("too large", "null")
        ELSE IF ~Scanned(frame) THEN Fault("refused", "null")
        ELSE IF Head(Compact(frame)) # "{" THEN Fault("invalid", "null")
        ELSE IF Field(frame, "jsonrpc") # "2.0"
        THEN Fault("invalid", usableRequestId(Field(frame, "id")))
        ELSE [code |-> "request", id |-> Field(frame, "id"), method |-> Field(frame, "method")]

requestLimit(method) == IF method \in PipelineMethods THEN PipelineFrame ELSE NormalFrame

\* How the client writes a request (id) or a notification (no id).
encode(id, method) ==
    IF id = Closed
    THEN <<"{", "jsonrpc", ":", "2.0", ",", "method", ":", method, "}", NewLine>>
    ELSE <<"{", "jsonrpc", ":", "2.0", ",", "id", ":", id, ",",
           "method", ":", method, "}", NewLine>>

(***************************************************************************)
(* consumeChunk: a chunk completes frames and leaves a rest.  A rest over  *)
(* the limit is answered at once, like a frame of that length, and what    *)
(* follows is dropped up to the next newline.                              *)
(***************************************************************************)
Breaks(data) == {i \in 1 .. Len(data) : data[i] = NewLine}

\* The i-th line break; the 0-th is before the first token.
Break(data, i) ==
    IF i = 0 THEN 0
    ELSE CHOOSE b \in Breaks(data) : Cardinality({j \in Breaks(data) : j <= b}) = i

Lines(data) ==
    [i \in 1 .. Cardinality(Breaks(data)) |->
        SubSeq(data, Break(data, i - 1) + 1, Break(data, i) - 1)]

Rest(data) == SubSeq(data, Break(data, Cardinality(Breaks(data))) + 1, Len(data))

\* Variant: the rest of a chunk is lost with the oversized frame it ends.
UndroppedNever(chunk, dropping) == IF dropping THEN << >> ELSE chunk

\* What is left of a chunk while an oversized frame is being dropped.
Undropped(chunk, dropping) ==
    IF dropping THEN SubSeq(chunk, Break(chunk, 1) + 1, Len(chunk)) ELSE chunk

consumeChunk(pending, dropping, chunk) ==
    IF dropping /\ Breaks(chunk) = {}
    THEN [frames |-> << >>, pending |-> pending, dropping |-> TRUE]
    ELSE LET data == pending \o Undropped(chunk, dropping)
             over == Len(Rest(data)) > PipelineFrame
         IN  [frames |-> IF over THEN Append(Lines(data), Rest(data)) ELSE Lines(data),
              pending |-> IF over THEN << >> ELSE Rest(data),
              dropping |-> over]

(***************************************************************************)
(* What the scanner is to accept, without its order of reading: a text     *)
(* without white space that the grammar derives, with at most MaxDepth     *)
(* brackets around a value and no key twice in one object.                 *)
(***************************************************************************)
Scalars == Strings \cup SafeNumbers \cup Literals

Derivable(doc) ==
    LET derives[what \in {"value", "elements", "members"}, i, j \in 0 .. Len(doc)] ==
          CASE what = "value" ->
                 \/ i = j /\ doc[i] \in Scalars
                 \/ /\ i < j /\ doc[i] = "[" /\ doc[j] = "]"
                    /\ i + 1 = j \/ derives["elements", i + 1, j - 1]
                 \/ /\ i < j /\ doc[i] = "{" /\ doc[j] = "}"
                    /\ i + 1 = j \/ derives["members", i + 1, j - 1]
            [] what = "elements" ->
                 \/ i <= j /\ derives["value", i, j]
                 \/ \E k \in (i + 1) .. (j - 1) :
                      doc[k] = "," /\ derives["value", i, k - 1] /\ derives["elements", k + 1, j]
            [] OTHER ->
                 /\ i + 2 <= j /\ doc[i] \in Strings /\ doc[i + 1] = ":"
                 /\ \/ derives["value", i + 2, j]
                    \/ \E k \in (i + 3) .. (j - 1) :
                         doc[k] = "," /\ derives["value", i + 2, k - 1] /\ derives["members", k + 1, j]
    IN  doc # << >> /\ derives["value", 1, Len(doc)]

InDepth(doc) ==
    \A i \in DOMAIN doc : doc[i] \in Scalars \cup {"{", "["} => Level(doc, i) <= MaxDepth

\* Two keys of one object have no position between them outside of it.
IsKey(doc, i) == i < Len(doc) /\ doc[i + 1] = ":"

DistinctKeys(doc) ==
    \A i, j \in DOMAIN doc :
      i < j /\ IsKey(doc, i) /\ IsKey(doc, j) /\ doc[i] = doc[j] /\ Level(doc, i) = Level(doc, j)
        => \E k \in i .. j : Level(doc, k) < Level(doc, i)

IsDocument(doc) == Derivable(doc) /\ InDepth(doc) /\ DistinctKeys(doc)
===============================================================================
