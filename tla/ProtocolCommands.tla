-------------------------- MODULE ProtocolCommands ---------------------------
(***************************************************************************)
(* The five commands of the protocol: how requests and responses become    *)
(* payload bytes and back, the device's handlers with the adapter that     *)
(* calls them, and what the host makes of a response.                      *)
(*                                                                         *)
(* A deserializer returns [error, value]; the value counts only without an *)
(* error.  A handler returns a response with its response code; the write  *)
(* handler also returns the firmware's memory.  A parameter's name is a    *)
(* sequence of character codes that ends in a null one.                    *)
(***************************************************************************)
EXTENDS Packets, ParameterSystem, StaticList

\* OperationCodes.
ping                               == 1
reboot                             == 2
boot_to_pico_usb_mass_storage_mode == 3
write_parameter_value              == 32
read_parameter_value               == 33
get_parameter_metadata             == 34
get_all_registered_parameter_ids   == 35
start_motor                        == 64
stop_motor                         == 65

OperationCodes == {ping, reboot, boot_to_pico_usb_mass_storage_mode,
                   write_parameter_value, read_parameter_value, get_parameter_metadata,
                   get_all_registered_parameter_ids, start_motor, stop_motor}

\* What initSWLibs registers a handler for.
RegisteredOperations == {ping, get_all_registered_parameter_ids, get_parameter_metadata,
                         read_parameter_value, write_parameter_value}

no_error                        == "no_error"
payload_missing_bytes           == "payload_missing_bytes"
payload_does_not_fit            == "payload_does_not_fit"
string_missing_null_termination == "string_missing_null_termination"
ParsingError == {no_error, payload_missing_bytes, payload_does_not_fit,
                 string_missing_null_termination}

Failed(error) == [error |-> error, value |-> << >>]
Parsed(value) == [error |-> no_error, value |-> value]

K_PAYLOAD_MAX_SIZE == UINT8_MAX
K_RAW_BUFF_SIZE    == K_PAYLOAD_MAX_SIZE
K_MAX_PARAMETER_ID == UINT8_MAX

-----------------------------------------------------------------------------
(* Requests.  A deserializer takes the fields from the front and ignores   *)
(* what follows them.                                                      *)
SerializeEmpty         == << >>
DeserializeEmpty(data) == Parsed(<< >>)

SerializeReadRequest(req) == <<req.parameter_id, req.expected_value_type>>

DeserializeReadRequest(data) ==
  IF Len(data) < 2 THEN Failed(payload_missing_bytes)
  ELSE Parsed([parameter_id |-> data[1], expected_value_type |-> data[2]])

\* put: the value in the width of its type.
PutValue(id, type, number) ==
  [parameter_id |-> id, expected_value_type |-> type, raw_bytes |-> Encode(type, number)]

SerializeWriteRequest(req) ==
  <<req.parameter_id, req.expected_value_type>> \o req.raw_bytes

DeserializeWriteRequest(data) ==
  IF Len(data) < 2 THEN Failed(payload_missing_bytes)
  ELSE IF Len(data) - 2 > K_RAW_BUFF_SIZE THEN Failed(payload_does_not_fit)
  ELSE Parsed([parameter_id        |-> data[1],
               expected_value_type |-> data[2],
               raw_bytes           |-> SubSeq(data, 3, Len(data))])

SerializeMetadataRequest(req) == <<req.parameter_id>>

DeserializeMetadataRequest(data) ==
  IF Len(data) < 1 THEN Failed(payload_missing_bytes)
  ELSE Parsed([parameter_id |-> data[1]])

-----------------------------------------------------------------------------
(* Responses.                                                              *)
SerializeReadResponse(resp) == resp.raw_bytes

DeserializeReadResponse(data) == Parsed(data)

\* The name up to and with its first null character.
TerminatedName(name) ==
  IF \A i \in DOMAIN name : name[i] # 0 THEN name
  ELSE SubSeq(name, 1, SelectInSeq(name, LAMBDA c : c = 0))

SerializeMetadataResponse(resp) ==
  <<resp.id, resp.category, resp.value_type, resp.read_write_access>>
    \o TerminatedName(resp.name)

DeserializeMetadataResponse(data) ==
  IF Len(data) < 5 THEN Failed(payload_missing_bytes)
  ELSE IF \A i \in 5..Len(data) : data[i] # 0 THEN Failed(string_missing_null_termination)
  ELSE Parsed([id                |-> data[1],
               category          |-> data[2],
               value_type        |-> data[3],
               read_write_access |-> data[4],
               name              |-> TerminatedName(SubSeq(data, 5, Len(data)))])

SerializeIdsResponse(ids) == Contents(ids)

DeserializeIdsResponse(data) ==
  Parsed(pushedBack(data, K_MAX_PARAMETER_ID, 0))

-----------------------------------------------------------------------------
(* The device's handlers, over the database db and the memory.             *)
pingHandler == [response_code |-> ok, payload |-> SerializeEmpty]

RequestedParameter(db, id) == getParameterDefinitionById(db, id)

TypeMatches(param, request) == param.value_type = request.expected_value_type

\* Mutation: the type the master expects is not compared.
readAnyType(db, memory, request) ==
  LET param == RequestedParameter(db, request.parameter_id)
  IN  IF param = NullDefinition THEN [response_code |-> invalid_id, raw_bytes |-> << >>]
      ELSE [response_code |-> ok, raw_bytes |-> getValueRaw(param, memory, K_RAW_BUFF_SIZE).bytes]

readParamValue(db, memory, request) ==
  LET param   == RequestedParameter(db, request.parameter_id)
      reading == getValueRaw(param, memory, K_RAW_BUFF_SIZE)
      Refused(code) == [response_code |-> code, raw_bytes |-> << >>]
  IN  IF param = NullDefinition THEN Refused(invalid_id)
      ELSE IF ~TypeMatches(param, request) THEN Refused(type_mismatch)
      ELSE IF reading.result # result_ok THEN Refused(unexpected_local_error)
      ELSE [response_code |-> ok, raw_bytes |-> reading.bytes]

writeParamValue(db, memory, request) ==
  LET param   == RequestedParameter(db, request.parameter_id)
      writing == setValueRaw(param, memory, request.raw_bytes)
      Refused(code) == [response_code |-> code, memory |-> memory]
  IN  IF param = NullDefinition THEN Refused(invalid_id)
      ELSE IF ~TypeMatches(param, request) THEN Refused(type_mismatch)
      ELSE IF writing.result = not_allowed THEN Refused(forbidden)
      ELSE IF writing.result # result_ok THEN Refused(unexpected_local_error)
      ELSE [response_code |-> ok, memory |-> writing.memory]

\* The metadata of a response for an unknown id is never set: it is whatever
\* the stack held.
getParamMetaData(db, request, uninitialised) ==
  LET param == RequestedParameter(db, request.parameter_id)
  IN  IF param = NullDefinition
      THEN [response_code |-> invalid_id, meta_data |-> uninitialised]
      ELSE [response_code |-> ok, meta_data |-> getMetaData(param)]

\* Mutation: the last id is left out.
getParamIdsButLast(db) ==
  pushedBack([i \in 1..getAmountOfRegisteredParameters(db) - 1 |->
                getParameterDefinitionByIndex(db, i - 1).id],
             K_MAX_PARAMETER_ID, 0)

\* Asserts before each pushBack that the response has room.
getParamIds(db) ==
  pushedBack([i \in 1..getAmountOfRegisteredParameters(db) |->
                getParameterDefinitionByIndex(db, i - 1).id],
             K_MAX_PARAMETER_ID, 0)

-----------------------------------------------------------------------------
(* The adapter registerCommandHandler makes for each command: deserialize, *)
(* call the handler, serialize.  A payload that does not parse is answered *)
(* with malformed_request and no payload.                                  *)
Answer(code, payload, memory) ==
  [response_code |-> code, payload |-> payload, memory |-> memory]

MalformedRequest(memory) == Answer(malformed_request, << >>, memory)

AnswerRead(db, memory, data) ==
  LET request  == DeserializeReadRequest(data)
      response == readParamValue(db, memory, request.value)
  IN  IF request.error # no_error THEN MalformedRequest(memory)
      ELSE Answer(response.response_code, SerializeReadResponse(response), memory)

AnswerWrite(db, memory, data) ==
  LET request  == DeserializeWriteRequest(data)
      response == writeParamValue(db, memory, request.value)
  IN  IF request.error # no_error THEN MalformedRequest(memory)
      ELSE Answer(response.response_code, SerializeEmpty, response.memory)

AnswerMetadata(db, memory, data, uninitialised) ==
  LET request  == DeserializeMetadataRequest(data)
      response == getParamMetaData(db, request.value, uninitialised)
  IN  IF request.error # no_error THEN MalformedRequest(memory)
      ELSE Answer(response.response_code,
                  SerializeMetadataResponse(response.meta_data), memory)

AnswerIds(db, memory) == Answer(ok, SerializeIdsResponse(getParamIds(db)), memory)

\* The device's answer to a request packet that arrived intact.
DeviceAnswer(db, memory, operation, data, uninitialised) ==
  CASE operation = ping -> Answer(pingHandler.response_code, pingHandler.payload, memory)
    [] operation = read_parameter_value             -> AnswerRead(db, memory, data)
    [] operation = write_parameter_value            -> AnswerWrite(db, memory, data)
    [] operation = get_parameter_metadata           -> AnswerMetadata(db, memory, data, uninitialised)
    [] operation = get_all_registered_parameter_ids -> AnswerIds(db, memory)
    [] OTHER -> Answer(unknown_operation_code, << >>, memory)

-----------------------------------------------------------------------------
(* The host: the payload is deserialized first and, when that fails, the   *)
(* device's code is lost behind malformed_response.                        *)
DeserializeResponsePayload(operation, payload) ==
  CASE operation = read_parameter_value             -> DeserializeReadResponse(payload)
    [] operation = get_parameter_metadata           -> DeserializeMetadataResponse(payload)
    [] operation = get_all_registered_parameter_ids -> DeserializeIdsResponse(payload)
    [] OTHER                                        -> DeserializeEmpty(payload)

CommandResponse(operation, answer) ==
  LET parsed == DeserializeResponsePayload(operation, answer.payload)
  IN  IF parsed.error # no_error
      THEN [response_code |-> malformed_response, value |-> << >>]
      ELSE [response_code |-> answer.response_code, value |-> parsed.value]

\* take asserts that as many bytes came as the type has.
CanTake(type, raw_bytes) == Len(raw_bytes) = SizeOf(type)

=============================================================================
