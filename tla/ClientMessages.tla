---------------------------- MODULE ClientMessages ----------------------------
(***************************************************************************)
(* What the runtime makes of the JSON object a client sends on a realtime  *)
(* socket: parse_client_message (transport/websocket/codec.py) reads the   *)
(* fields of the message types of protocol.py one after the other, and     *)
(* audio_chunk_from_message (session_worker/shared.py) decodes the audio.  *)
(* A payload gives every field the kind of its value, or one of the texts  *)
(* told apart; "absent" is a field that is missing, and "null" one that is *)
(* there and null, which only the transport takes for another value.       *)
(***************************************************************************)
EXTENDS Sequences, SequencesExt

AudioTransport == {"inline-base64", "binary-frame"}
AudioEncoding == {"pcm_s16le", "pcm_f32le"}
Text == {"text", "base64"} \cup AudioTransport \cup AudioEncoding

\* What each reader of a field accepts; a Python bool is an int.
Accepted ==
  [str |-> Text, int |-> {"integer", "boolean"}, dict |-> {"object"},
   optional_str |-> Text \cup {"absent", "null"},
   optional_int |-> {"absent", "null", "integer", "boolean"},
   optional_float |-> {"absent", "null", "integer", "number", "boolean"},
   optional_bool |-> {"absent", "null", "boolean"},
   optional_dict |-> {"absent", "null", "object"},
   transport |-> {"absent"} \cup AudioTransport]

\* The fields of each type, in the order they are read.
InSession == <<<<"session_id", "str">>>>
AudioChunkPayload ==
  <<<<"chunk_id", "str">>, <<"sequence", "int">>, <<"encoding", "str">>,
    <<"sample_rate_hz", "int">>, <<"channels", "int">>,
    <<"duration_ms", "optional_float">>, <<"transport", "transport">>,
    <<"data_base64", "optional_str">>>>
Committing ==
  InSession \o <<<<"sequence", "optional_int">>,
                 <<"client_turn_id", "optional_str">>>>

ClientMessage ==
  [SessionStart |->
     <<<<"session_id", "optional_str">>, <<"engine_selection", "optional_dict">>,
       <<"metadata", "optional_dict">>, <<"config", "optional_dict">>>>,
   AudioAppend |-> InSession \o <<<<"chunk", "dict">>>> \o AudioChunkPayload,
   AudioCommit |-> Committing,
   UserTurnCommit |-> Committing,
   AgentSay |-> InSession \o <<<<"text", "str">>>>,
   AgentGenerateReply |->
     InSession \o <<<<"user_text", "str">>, <<"instructions", "optional_str">>,
                    <<"allow_interruptions", "optional_bool">>>>,
   ConversationInterrupt |-> InSession \o <<<<"reason", "optional_str">>>>,
   EngineSelect |-> InSession \o <<<<"engine_selection", "optional_dict">>>>,
   ConfigUpdate |-> InSession \o <<<<"config", "dict">>>>,
   SessionClose |-> InSession]
ClientMessageType == DOMAIN ClientMessage

\* The places of the fields that are not as they are read.
Unread(payload) ==
  LET fields == ClientMessage[payload.type]
  IN {i \in DOMAIN fields : payload.value[fields[i][1]] \notin Accepted[fields[i][2]]}

\* "protocol_error" is a TransportProtocolError, "raises" a ValueError that
\* nobody turns into one.
parse_client_message(payload) ==
  IF payload.type \notin ClientMessageType THEN "protocol_error"
  ELSE IF Unread(payload) = {} THEN "message"
  ELSE IF ClientMessage[payload.type][Min(Unread(payload))][2] = "transport" THEN "raises"
  ELSE "protocol_error"

audio_chunk_from_message(payload) ==
  CASE \/ payload.value["transport"] = "binary-frame"
       \/ payload.value["data_base64"] # "base64" -> "protocol_error"
    [] /\ payload.value["transport"] # "binary-frame"
       /\ payload.value["data_base64"] = "base64" ->
         IF payload.value["encoding"] \in AudioEncoding THEN "message"
         ELSE "raises"

\* What WorkerHost.apply comes to before the worker acts: an error with a
\* session is told to the client, one without closes the socket (1003), and an
\* exception of another kind ends the handler.
Reception(payload) ==
  LET parsed == parse_client_message(payload)
      outcome == IF parsed = "message" /\ payload.type = "AudioAppend"
                   THEN audio_chunk_from_message(payload) ELSE parsed
  IN IF outcome = "protocol_error" /\ payload.value["session_id"] \notin Text
       THEN "closes" ELSE outcome
=============================================================================
