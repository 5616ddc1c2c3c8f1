------------------------------- MODULE MCWire -------------------------------
(***************************************************************************)
(* Instances of Mq9Wire for TLC.                                           *)
(***************************************************************************)
EXTENDS Mq9Wire

\* Two mailboxes, one private and one public, neither of which is the other
\* with a word added.
TwoMailboxes == {<<"m1">>, <<"task", "queue">>}

\* Four mailboxes, two of which share words, without that.
NamedMailboxes == {<<"m1">>, <<"m2">>, <<"task", "queue">>, <<"task", "queue", "a", "b">>}

\* A public mailbox and another whose name adds a word to its name.
NestedMailboxes == {<<"task">>, <<"task", "queue">>}

TwoIds == <<"id1", "id2">>

Plain(kinds) == [kind : kinds]
JsonObject(id, payload) == [kind |-> "object", id |-> id, payload |-> payload, level |-> "absent"]

\* A payload of each kind; the object is one with a msg_id of its own.
AllKinds == Plain({"nothing", "binary", "text", "scalar"}) \cup {JsonObject("string", "absent")}

\* Payloads that do not look like an envelope.
Opaque == OpaqueBodies \cup {JsonObject("absent", "absent"), JsonObject("absent", "object")}

TextOnly == Plain({"text"})
BinaryOnly == Plain({"binary"})

AllSdks == SDKs
PythonOnly == {"python"}
=============================================================================
