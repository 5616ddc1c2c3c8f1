---------------------------- MODULE Mq9Envelope ----------------------------
(***************************************************************************)
(* How each SDK turns the bytes of an incoming message into a Message.     *)
(*                                                                         *)
(* A body is one of                                                        *)
(*   nothing  no bytes at all;                                             *)
(*   binary   bytes that are not text in any encoding JSON allows;         *)
(*   text     text that is not JSON;                                       *)
(*   scalar   JSON, but not an object (a number, null, an array ...);      *)
(*   object   a JSON object, of which only three fields are looked at:     *)
(*     id       its "msg_id": absent, null, a string or a number;          *)
(*     payload  its "payload": absent, null, the empty string, well-formed *)
(*              base64, a word (only letters of the base64 alphabet, one   *)
(*              more than a multiple of four, like "hello"), a phrase      *)
(*              (characters base64 does not have between others that do    *)
(*              not make up base64 either, like "not ok!"), or a non-empty *)
(*              JSON object;                                               *)
(*     level    its "priority": absent, or a string.                       *)
(*                                                                         *)
(* A parsed message has an id ("given": the sender's; "": none; "nontext": *)
(* a value that is not a string), a level, and a payload, which is the     *)
(* whole body, the decoded payload field, no bytes, or garbled bytes (what *)
(* a lenient decoder makes of a string that is not base64).                *)
(***************************************************************************)
EXTENDS Mq9Subjects

SDKs == {"rust", "python", "go", "javascript", "java", "csharp"}

IdFields == {"absent", "null", "string", "number"}
PayloadFields == {"absent", "null", "empty", "base64", "word", "phrase", "object"}
LevelFields == {"absent", "URGENT"} \cup Levels

OpaqueBodies == [kind : {"nothing", "binary", "text", "scalar"}]
ObjectBodies ==
  [kind : {"object"}, id : IdFields, payload : PayloadFields, level : LevelFields]
Bodies == OpaqueBodies \cup ObjectBodies

Parsed == [id : {"given", "", "nontext"}, level : Levels,
           payload : {"whole", "decoded", "none", "garbled"}]

\* The exception of a parser that lets one escape.
Raised == [id |-> "", level |-> "normal", payload |-> "raised"]

HasId(body) == body.kind = "object" /\ body.id # "absent"

\* Every SDK's fallback: the whole body, at the level of the subject.
RawMessage(level) == [id |-> "", level |-> level, payload |-> "whole"]

\* Faulty: the id is not read.
NoId(body) == ""

TextId(body) == IF body.id = "string" THEN "given" ELSE ""

\* The level named by the envelope, which Go, JavaScript, Java and C# prefer
\* to the level of the subject.
ToPriority(body) == FromStrLossy(body.level)

-----------------------------------------------------------------------------
\* Faulty: the payload is not decoded.
RustPayloadEncoded ==
  [absent |-> "whole", null |-> "whole", empty |-> "none", base64 |-> "whole",
   word |-> "whole", phrase |-> "whole", object |-> "whole"]

\* Rust: any object with a msg_id is an envelope.  A payload that is missing,
\* is not a string or does not decode gives the whole body; the hand-written
\* decoder does not check the length of its input, so a word decodes.
RustPayload ==
  [absent |-> "whole", null |-> "whole", empty |-> "none", base64 |-> "decoded",
   word |-> "garbled", phrase |-> "whole", object |-> "whole"]

RustParse(level, body) ==
  IF HasId(body)
  THEN [id |-> TextId(body), level |-> level, payload |-> RustPayload[body.payload]]
  ELSE RawMessage(level)

\* Faulty: the decoder does not take the server's base64.
PythonPayloadStrict ==
  [absent |-> "whole", null |-> "whole", empty |-> "whole", base64 |-> "raised",
   word |-> "raised", phrase |-> "raised", object |-> "raised"]

\* Python: a falsy payload gives the whole body.  Only JSONDecodeError and
\* KeyError are caught: the UnicodeDecodeError of json.loads, the
\* binascii.Error and the TypeError of b64decode escape.
PythonPayload ==
  [absent |-> "whole", null |-> "whole", empty |-> "whole", base64 |-> "decoded",
   word |-> "raised", phrase |-> "raised", object |-> "raised"]

PythonId == [null |-> "nontext", string |-> "given", number |-> "nontext"]

PythonParse(level, body) ==
  CASE body.kind = "binary" -> Raised
    [] HasId(body) ->
         IF PythonPayload[body.payload] = "raised" THEN Raised
         ELSE [id |-> PythonId[body.id], level |-> level,
               payload |-> PythonPayload[body.payload]]
    [] OTHER -> RawMessage(level)

\* Go: a field of the wrong type reads as "", and the error of the base64
\* decoder is discarded, which leaves the bytes before the bad character.
GoPayload ==
  [absent |-> "none", null |-> "none", empty |-> "none", base64 |-> "decoded",
   word |-> "garbled", phrase |-> "garbled", object |-> "none"]

\* Faulty: any object is taken for an envelope.
GoParseAnyObject(level, body) ==
  IF body.kind = "object"
  THEN [id |-> TextId(body), level |-> ToPriority(body), payload |-> GoPayload[body.payload]]
  ELSE RawMessage(level)

\* Faulty: what is not JSON is an error.
GoParseStrict(level, body) ==
  IF body.kind \in {"object", "scalar"} THEN RawMessage(level) ELSE Raised

GoParse(level, body) ==
  IF HasId(body)
  THEN [id |-> TextId(body), level |-> ToPriority(body), payload |-> GoPayload[body.payload]]
  ELSE RawMessage(level)

\* JavaScript: Buffer.from skips what is not base64, and throws for an
\* object; the exception is caught and the body is taken as raw.
JsPayload ==
  [absent |-> "none", null |-> "none", empty |-> "none", base64 |-> "decoded",
   word |-> "garbled", phrase |-> "garbled", object |-> "raised"]

JsId == [null |-> "", string |-> "given", number |-> "nontext"]

JsParse(level, body) ==
  IF HasId(body) /\ JsPayload[body.payload] # "raised"
  THEN [id |-> JsId[body.id], level |-> ToPriority(body), payload |-> JsPayload[body.payload]]
  ELSE RawMessage(level)

\* Java: asText turns any scalar into text and an object into "", the strict
\* decoder throws, which is caught, and level names ignore case.
JavaPayload ==
  [absent |-> "none", null |-> "none", empty |-> "none", base64 |-> "decoded",
   word |-> "raised", phrase |-> "raised", object |-> "none"]

JavaLevel(body) == IF body.level = "URGENT" THEN "urgent" ELSE ToPriority(body)

JavaParse(level, body) ==
  IF HasId(body) /\ JavaPayload[body.payload] # "raised"
  THEN [id |-> IF body.id = "null" THEN "" ELSE "given", level |-> JavaLevel(body),
        payload |-> JavaPayload[body.payload]]
  ELSE RawMessage(level)

\* C#: a null msg_id is no msg_id; GetValue<string> throws for a number and
\* for an object, and FromBase64String for a string that is not base64.
CsPayload ==
  [absent |-> "none", null |-> "none", empty |-> "none", base64 |-> "decoded",
   word |-> "raised", phrase |-> "raised", object |-> "raised"]

CsParse(level, body) ==
  IF HasId(body) /\ body.id = "string" /\ CsPayload[body.payload] # "raised"
  THEN [id |-> "given", level |-> ToPriority(body), payload |-> CsPayload[body.payload]]
  ELSE RawMessage(level)

\* The parser of an SDK, applied to the level of the subject and a body.
Parse(sdk, level, body) ==
  CASE sdk = "rust" -> RustParse(level, body)
    [] sdk = "python" -> PythonParse(level, body)
    [] sdk = "go" -> GoParse(level, body)
    [] sdk = "javascript" -> JsParse(level, body)
    [] sdk = "java" -> JavaParse(level, body)
    [] sdk = "csharp" -> CsParse(level, body)

\* The envelope of a server that sends one (external): message id, the level
\* the message was sent with, and its bytes in base64.
ServerEnvelope(level, body) ==
  [kind |-> "object", id |-> "string",
   payload |-> IF body.kind = "nothing" THEN "empty" ELSE "base64", level |-> level]
=============================================================================
