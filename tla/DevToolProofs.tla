---------------------------- MODULE DevToolProofs ----------------------------
(***************************************************************************)
(* Proofs about the dev tool and the device behind it, for all definitions *)
(* the firmware can register and whatever the user types: the size of a    *)
(* value never changes, take's assertion never fails, no exchange changes  *)
(* a variable that only signals show, the table is complete or empty, the  *)
(* tool is undefined only for a known cause, the device takes every edit,  *)
(* and a cell tells what the device holds, or there is a known doubt.      *)
(***************************************************************************)
EXTENDS DevTool, ProtocolCommandsProofs, FiniteSetTheorems

\* Each variable has the number of bytes it started with.
SizesKept ==
  /\ DOMAIN memory = Variables
  /\ \A v \in Variables : Len(memory[v]) = Len(InitialMemory[v])

\* The inductive invariant.
IInv == SizesKept /\ TakeNeverFails

\* The bytes of a write, stored behind the i-th definition.
StoredBy(i) ==
  /\ valueIsWritable(Definitions[i])
  /\ \E bytes :
       /\ Len(bytes) = SizeOf(Definitions[i].value_type)
       /\ memory' = [memory EXCEPT ![Definitions[i].variable] = bytes]

\* What a step does to the memory: nothing, a restart, a turn of the main loop,
\* or one write.
MemoryStep ==
  \/ memory' = memory
  \/ memory' = InitialMemory
  \/ memory' = CountedLoop(memory) /\ loops' # loops
  \/ \E i \in DOMAIN Definitions : StoredBy(i)

-----------------------------------------------------------------------------
(* The device's answers.                                                   *)

LEMMA DefinitionsAreTyped ==
  /\ Definitions \in Seq(DefinitionsOf(Variables))
  /\ \A i \in DOMAIN Definitions : Definitions[i] \in DefinitionsOf(Variables)
<1>1. Definitions \in Seq(DefinitionsOf(Variables))
  BY DefinitionsAssumption DEF DefinitionsOf, Variables
<1> QED
  BY <1>1

LEMMA DatabaseOfDefinitions == Database \in Databases(Variables)
<1>1. Database = [capacity |-> 64, registered |-> Definitions]
  BY DEF Database, Registered, ParameterDatabase
<1> QED
  BY <1>1, DefinitionsAreTyped, DefinitionsAssumption DEF Databases

\* Only the answer to a write comes with another memory.
LEMMA OtherAnswersKeepMemory ==
  ASSUME NEW operation, NEW data, NEW u, operation # write_parameter_value
  PROVE  DeviceAnswer(Database, memory, operation, data, u).memory = memory
<1>1. AnswerRead(Database, memory, data).memory = memory
  BY DEF AnswerRead, MalformedRequest, Answer
<1>2. AnswerMetadata(Database, memory, data, u).memory = memory
  BY DEF AnswerMetadata, MalformedRequest, Answer
<1>3. AnswerIds(Database, memory).memory = memory
  BY DEF AnswerIds, Answer
<1> HIDE DEF AnswerRead, AnswerMetadata, AnswerIds
<1> QED
  BY <1>1, <1>2, <1>3 DEF DeviceAnswer, Answer, ping, read_parameter_value,
     write_parameter_value, get_parameter_metadata, get_all_registered_parameter_ids

\* The memory that comes with an answer: the old one, or one write.
LEMMA AnswerStores ==
  ASSUME NEW data, memory' = AnswerWrite(Database, memory, data).memory
  PROVE  memory' = memory \/ \E i \in DOMAIN Definitions : StoredBy(i)
<1> DEFINE request == DeserializeWriteRequest(data)
           answer  == writeParamValue(Database, memory, request.value)
<1>1. CASE request.error # no_error
  BY <1>1 DEF AnswerWrite, MalformedRequest, Answer
<1>2. CASE request.error = no_error
  <2>1. memory' = answer.memory
    BY <1>2 DEF AnswerWrite, Answer
  <2>2. CASE answer.memory = memory
    BY <2>1, <2>2
  <2>3. ASSUME NEW i \in DOMAIN Database.registered,
               CarriedOut(Database, memory, request.value, answer.memory, i)
        PROVE  i \in DOMAIN Definitions /\ StoredBy(i)
    <3>1. Database.registered = Definitions
      BY DEF Database, Registered, ParameterDatabase
    <3>2. i \in DOMAIN Definitions /\ Definitions[i].value_type \in ParameterValueType
      BY <2>3, <3>1, DefinitionsAreTyped DEF DefinitionsOf
    <3> DEFINE bytes == SubSeq(request.value.raw_bytes, 1, SizeOf(Definitions[i].value_type))
    <3>3. Len(bytes) = SizeOf(Definitions[i].value_type)
      BY <3>2, SizesAreNatural
    <3>4. /\ valueIsWritable(Definitions[i])
          /\ memory' = [memory EXCEPT ![Definitions[i].variable] = bytes]
      BY <2>1, <2>3, <3>1 DEF CarriedOut
    <3> HIDE DEF bytes
    <3> QED
      BY <3>2, <3>3, <3>4 DEF StoredBy
  <2> HIDE DEF answer, request
  <2> QED
    BY <2>1, <2>2, <2>3, WriteChangesOneWritable, DatabaseOfDefinitions DEF answer
<1> QED
  BY <1>1, <1>2

LEMMA AnswersStore ==
  ASSUME NEW operation, NEW data, NEW answer \in Answers(operation, data),
         memory' = answer.memory
  PROVE  memory' = memory \/ \E i \in DOMAIN Definitions : StoredBy(i)
<1>1. PICK u \in Uninitialised :
        answer = DeviceAnswer(Database, memory, operation, data, u)
  BY DEF Answers
<1>2. CASE operation = write_parameter_value
  <2>1. answer = AnswerWrite(Database, memory, data)
    BY <1>1, <1>2 DEF DeviceAnswer, ping, read_parameter_value, write_parameter_value,
       get_parameter_metadata, get_all_registered_parameter_ids
  <2> QED
    BY <2>1, AnswerStores
<1>3. CASE operation # write_parameter_value
  BY <1>1, <1>3, OtherAnswersKeepMemory
<1> QED
  BY <1>2, <1>3

\* What comes with an ok to a read has the size of the type asked for.
LEMMA ReadsFit ==
  ASSUME NEW id, NEW type, NEW answer \in Answers(read_parameter_value, ReadPayload(id, type))
  PROVE  ~TakeFails(CommandResponse(read_parameter_value, answer), type)
<1> DEFINE request  == [parameter_id |-> id, expected_value_type |-> type]
           response == readParamValue(Database, memory, request)
           param    == getParameterDefinitionById(Database, id)
           got      == CommandResponse(read_parameter_value, answer)
<1>1. DeserializeReadRequest(ReadPayload(id, type)) = Parsed(request)
  BY DEF DeserializeReadRequest, ReadPayload, SerializeReadRequest
<1>2. answer = AnswerRead(Database, memory, ReadPayload(id, type))
  BY DEF Answers, DeviceAnswer, ping, read_parameter_value, write_parameter_value,
     get_parameter_metadata, get_all_registered_parameter_ids
<1> HIDE DEF request
<1>3. answer = Answer(response.response_code, response.raw_bytes, memory)
  BY <1>1, <1>2 DEF AnswerRead, Parsed, SerializeReadResponse
<1>4. got = [response_code |-> response.response_code, value |-> response.raw_bytes]
  BY <1>3 DEF CommandResponse, Answer, DeserializeResponsePayload, DeserializeReadResponse,
     Parsed, read_parameter_value, get_parameter_metadata, get_all_registered_parameter_ids
<1>5. SUFFICES ASSUME response.response_code = ok
               PROVE  Len(response.raw_bytes) = SizeOf(type)
  BY <1>4 DEF TakeFails, CanTake
<1>6. request.parameter_id = id /\ request.expected_value_type = type
  BY DEF request
<1>7. param # NullDefinition /\ param.value_type = type
  BY <1>5, <1>6 DEF readParamValue, RequestedParameter, TypeMatches, ok, invalid_id,
     type_mismatch
<1>8. type \in ParameterValueType
  BY <1>7, LookupFindsTheId, DatabaseOfDefinitions DEF DefinitionsOf
<1>9. response.raw_bytes = getValueRaw(param, memory, K_RAW_BUFF_SIZE).bytes
      /\ getValueRaw(param, memory, K_RAW_BUFF_SIZE).result = result_ok
  BY <1>5, <1>6, <1>7 DEF readParamValue, RequestedParameter, TypeMatches, ok,
     unexpected_local_error
<1>10. response.raw_bytes = SubSeq(memory[param.variable], 1, SizeOf(type))
  BY <1>7, <1>9 DEF getValueRaw, result_ok, buffer_size_mismatch
<1> QED
  BY <1>8, <1>10, SizesAreNatural

LEMMA FailuresAreNotTaken ==
  ASSUME NEW type, NEW code \in {timed_out, corrupted}
  PROVE  ~TakeFails(FailedResponse(code), type)
BY DEF TakeFails, FailedResponse, ok, timed_out, corrupted

-----------------------------------------------------------------------------
(* The steps.                                                              *)

\* Only a step of the main loop, a restart and a write change the memory, and only
\* a read whose value does not fit ends in an assertion.
LEMMA StepsOfNext ==
  ASSUME [Next]_vars
  PROVE  MemoryStep /\ (tool' = "asserted" => tool = "asserted")
<1>1. CASE MainLoop
  BY <1>1 DEF MainLoop, toolVars, MemoryStep
<1>2. CASE Restart
  BY <1>2 DEF Restart, toolVars, MemoryStep
<1>3. CASE OtherToolWrites
  BY <1>3, AnswerStores DEF OtherToolWrites, toolVars, MemoryStep
<1>4. CASE RefreshDevices \/ PortChosen \/ NoPortChosen
  BY <1>4 DEF RefreshDevices, PortChosen, NoPortChosen, refreshDeviceList, deviceVars,
     MemoryStep
<1>5. CASE OpenView \/ AutomaticRefresh \/ Sort \/ Filter \/ StartEdit \/ CancelEdit
  BY <1>5 DEF OpenView, AutomaticRefresh, Sort, Filter, StartEdit, CancelEdit, deviceVars,
     MemoryStep
<1>6. CASE RefreshClicked \/ RefreshAllClicked \/ RefreshTimeout
  BY <1>6 DEF RefreshClicked, RefreshAllClicked, RefreshTimeout, Refresh, CallDevice,
     deviceVars, MemoryStep
<1>7. CASE CommitEdit
  BY <1>7 DEF CommitEdit, setData, CallDevice, deviceVars, MemoryStep
<1>8. CASE FindDevice
  BY <1>8, AnswersStore DEF FindDevice, Exchange, Undisturbed, Disturbed, MemoryStep
<1>9. CASE FetchIds
  BY <1>9, AnswersStore DEF FetchIds, Exchange, Undisturbed, Disturbed, MemoryStep
<1>10. CASE FetchMetaData
  BY <1>10, AnswersStore DEF FetchMetaData, Exchange, Undisturbed, Disturbed, MemoryStep
<1>11. CASE FetchValue
  <2> DEFINE type    == job.meta_data.value_type
             payload == ReadPayload(Head(job.ids), type)
  <2>1. CASE \E answer \in Answers(read_parameter_value, payload) :
               /\ memory' = answer.memory
               /\ ~TakeFails(CommandResponse(read_parameter_value, answer), type)
               /\ tool' = tool
    BY <2>1, AnswersStore DEF MemoryStep
  <2>2. CASE /\ memory' \in {memory} \cup {answer.memory :
                              answer \in Answers(read_parameter_value, payload)}
             /\ tool' = tool
    BY <2>2, AnswersStore DEF MemoryStep
  <2> QED
    BY <1>11, <2>1, <2>2, ReadsFit, FailuresAreNotTaken
       DEF FetchValue, Exchange, Undisturbed, Disturbed
<1>12. CASE RefreshRow
  <2> DEFINE type    == rows[job.row].meta_data.value_type
             payload == ReadPayload(rows[job.row].meta_data.id, type)
  <2>1. CASE \E answer \in Answers(read_parameter_value, payload) :
               /\ memory' = answer.memory
               /\ ~TakeFails(CommandResponse(read_parameter_value, answer), type)
               /\ tool' = tool
    BY <2>1, AnswersStore DEF MemoryStep
  <2>2. CASE /\ memory' \in {memory} \cup {answer.memory :
                              answer \in Answers(read_parameter_value, payload)}
             /\ tool' = tool
    BY <2>2, AnswersStore DEF MemoryStep
  <2> QED
    BY <1>12, <2>1, <2>2, ReadsFit, FailuresAreNotTaken
       DEF RefreshRow, Exchange, Undisturbed, Disturbed
<1>13. CASE WriteValue
  BY <1>13, AnswersStore DEF WriteValue, Exchange, Undisturbed, Disturbed, MemoryStep
<1>14. CASE PortFails
  BY <1>14 DEF PortFails, ToolEnds, deviceVars, MemoryStep
<1>15. CASE UNCHANGED vars
  BY <1>15 DEF vars, MemoryStep
<1> QED
  BY <1>1, <1>2, <1>3, <1>4, <1>5, <1>6, <1>7, <1>8, <1>9, <1>10, <1>11, <1>12, <1>13,
     <1>14, <1>15 DEF Next, ToolStep

LEMMA InitSatisfiesIInv == Init => IInv
BY DEF Init, IInv, SizesKept, TakeNeverFails, Variables

LEMMA MemoryStepKeepsSizes ==
  ASSUME SizesKept, MemoryStep
  PROVE  SizesKept'
<1>1. CASE memory' = memory \/ memory' = InitialMemory
  BY <1>1 DEF SizesKept, Variables
<1>2. CASE memory' = CountedLoop(memory)
  <2> DEFINE count == Decode(uint32, memory.test_uint32) + 1
  <2>1. memory' = [memory EXCEPT !["test_uint32"] = Encode(uint32, count)]
    BY <1>2 DEF CountedLoop
  <2>2. \A n : Len(Encode(uint32, n)) = 4
    BY DEF Encode, SizeOf, uint8, uint16, uint32, uint64, int8, int16, int32, int64,
       floating_point, double_float, boolean, none
  <2>3. InitialMemory["test_uint32"] = Encode(uint32, 123456)
    BY DEF InitialMemory
  <2> HIDE DEF count
  <2> QED
    BY <2>1, <2>2, <2>3 DEF SizesKept, Variables
<1>3. ASSUME NEW i \in DOMAIN Definitions, StoredBy(i)
      PROVE  SizesKept'
  <2>1. SizeOf(Definitions[i].value_type) = Len(InitialMemory[Definitions[i].variable])
    BY DefinitionsAssumption
  <2> QED
    BY <1>3, <2>1 DEF StoredBy, SizesKept, Variables
<1> QED
  BY <1>1, <1>2, <1>3 DEF MemoryStep

\* The memory's sizes are kept and take's assertion never fails.
THEOREM InvariantHolds == Spec => []IInv
<1>1. IInv /\ [Next]_vars => IInv'
  BY StepsOfNext, MemoryStepKeepsSizes DEF IInv, TakeNeverFails
<1> QED
  BY <1>1, InitSatisfiesIInv, PTL DEF Spec

\* The host's assertion about the size of a value it reads never fails, whatever
\* metadata the host believes, whoever writes and whenever the device restarts.
THEOREM TakeIsSafe == Spec => []TakeNeverFails
BY InvariantHolds, PTL DEF IInv

-----------------------------------------------------------------------------
(* Signals.                                                                *)

\* A write goes to a variable a writable definition names.
LEMMA WritesAvoidSignals ==
  ASSUME SizesKept, NEW v \in SignalVariables,
         NEW i \in DOMAIN Definitions, StoredBy(i)
  PROVE  memory'[v] = memory[v]
<1>1. Definitions[i].id \in WritableIds
  BY DEF StoredBy, WritableIds
<1>2. VariableOf(Definitions[i].id) = Definitions[i].variable
  <2>1. \A j \in DOMAIN Definitions : Definitions[j].id = Definitions[i].id => j = i
    BY DefinitionsAssumption
  <2> QED
    BY <2>1 DEF VariableOf
<1>3. v # Definitions[i].variable /\ v \in DOMAIN memory
  BY <1>1, <1>2 DEF SignalVariables, SizesKept
<1> QED
  BY <1>3 DEF StoredBy

\* No request changes a variable that only signals show: it takes a turn of the
\* device's main loop or a restart.
THEOREM SignalsStayWithDevice == Spec => SignalsBelongToDevice
<1> DEFINE SignalStep == \A v \in SignalVariables :
                           memory'[v] # memory[v] => loops' # loops \/ memory' = InitialMemory
<1>1. IInv /\ [Next]_vars => [SignalStep]_vars
  BY StepsOfNext, WritesAvoidSignals DEF IInv, MemoryStep
<1> QED
  BY <1>1, InvariantHolds, PTL DEF Spec, SignalsBelongToDevice

-----------------------------------------------------------------------------
(* What the device answers, and what the tool makes of it.                 *)

MetaDatas == [id : Byte, category : ParameterCategory, value_type : ParameterValueType,
              read_write_access : ReadWriteAccess, name : Seq(Byte)]

Row == [meta_data : MetaDatas, value : Int]

\* The registered ids.
Ids == [i \in 1..Len(Definitions) |-> Definitions[i].id]

\* Each variable holds bytes, as many as it started with.
MemoryTyped ==
  /\ memory \in [Variables -> Seq(Byte)]
  /\ \A v \in Variables : Len(memory[v]) = Len(InitialMemory[v])

\* What a read of the id as the type may bring: the bytes of a variable of that id
\* and type, or an error.
ReadResult(response, id, type) ==
  response.response_code = ok =>
    \E i \in DOMAIN Definitions :
      /\ Definitions[i].id = id /\ Definitions[i].value_type = type
      /\ response.value = memory[Definitions[i].variable]

LEMMA DefinitionFacts ==
  ASSUME NEW i \in DOMAIN Definitions
  PROVE  /\ Definitions[i].id \in Byte /\ Definitions[i].value_type \in ParameterValueType
         /\ Definitions[i].variable \in Variables
         /\ SizeOf(Definitions[i].value_type) = Len(InitialMemory[Definitions[i].variable])
         /\ SizeOf(Definitions[i].value_type) \in {0, 1, 2, 4, 8}
         /\ MetaDataOf(i) \in MetaDatas
         /\ MetaDataOf(i) = [id                |-> Definitions[i].id,
                             category          |-> Definitions[i].category,
                             value_type        |-> Definitions[i].value_type,
                             read_write_access |-> Definitions[i].read_write_access,
                             name              |-> Definitions[i].name]
<1>1. Definitions[i] \in DefinitionsOf(Variables)
  BY DefinitionsAreTyped
<1>2. /\ Definitions[i].id \in Byte /\ Definitions[i].value_type \in ParameterValueType
      /\ Definitions[i].category \in ParameterCategory
      /\ Definitions[i].read_write_access \in ReadWriteAccess
      /\ Definitions[i].name \in Seq(Byte)
      /\ Definitions[i].variable \in Variables
  BY <1>1 DEF DefinitionsOf
<1>3. SizeOf(Definitions[i].value_type) = Len(InitialMemory[Definitions[i].variable])
  BY DefinitionsAssumption
<1>4. SizeOf(Definitions[i].value_type) \in {0, 1, 2, 4, 8}
  BY <1>2, SizesAreNatural
<1> QED
  BY <1>2, <1>3, <1>4 DEF MetaDataOf, getMetaData, MetaDatas

LEMMA WholeVariable ==
  ASSUME MemoryTyped, NEW i \in DOMAIN Definitions
  PROVE  SubSeq(memory[Definitions[i].variable], 1, SizeOf(Definitions[i].value_type))
           = memory[Definitions[i].variable]
<1> DEFINE s == memory[Definitions[i].variable]
<1>1. s \in Seq(Byte) /\ Len(s) = SizeOf(Definitions[i].value_type)
  BY DefinitionFacts DEF MemoryTyped
<1> HIDE DEF s
<1>2. SubSeq(s, 1, Len(s)) = s
  <2>1. s \in Seq(Int)
    BY <1>1, BytesAreIntegers
  <2> QED
    BY <2>1, SeqEqual
<1> QED
  BY <1>1, <1>2 DEF s

LEMMA ReadAnswers ==
  ASSUME MemoryTyped, NEW id, NEW type,
         NEW answer \in Answers(read_parameter_value, ReadPayload(id, type))
  PROVE  /\ answer.memory = memory
         /\ ReadResult(CommandResponse(read_parameter_value, answer), id, type)
<1> DEFINE request  == [parameter_id |-> id, expected_value_type |-> type]
           response == readParamValue(Database, memory, request)
           param    == getParameterDefinitionById(Database, id)
           got      == CommandResponse(read_parameter_value, answer)
<1>1. DeserializeReadRequest(ReadPayload(id, type)) = Parsed(request)
  BY DEF DeserializeReadRequest, ReadPayload, SerializeReadRequest
<1>2. answer = AnswerRead(Database, memory, ReadPayload(id, type))
  BY DEF Answers, DeviceAnswer, ping, read_parameter_value, write_parameter_value,
     get_parameter_metadata, get_all_registered_parameter_ids
<1> HIDE DEF request
<1>3. answer = Answer(response.response_code, response.raw_bytes, memory)
  BY <1>1, <1>2 DEF AnswerRead, Parsed, SerializeReadResponse
<1>4. got = [response_code |-> response.response_code, value |-> response.raw_bytes]
  BY <1>3 DEF CommandResponse, Answer, DeserializeResponsePayload, DeserializeReadResponse,
     Parsed, read_parameter_value, get_parameter_metadata, get_all_registered_parameter_ids
<1>5. answer.memory = memory
  BY <1>3 DEF Answer
<1>6. ASSUME response.response_code = ok
      PROVE  \E i \in DOMAIN Definitions :
               /\ Definitions[i].id = id /\ Definitions[i].value_type = type
               /\ response.raw_bytes = memory[Definitions[i].variable]
  <2>1. request.parameter_id = id /\ request.expected_value_type = type
    BY DEF request
  <2>2. param # NullDefinition /\ param.value_type = type
    BY <1>6, <2>1 DEF readParamValue, RequestedParameter, TypeMatches, ok, invalid_id,
       type_mismatch
  <2>3. Database.registered = Definitions
    BY DEF Database, Registered, ParameterDatabase
  <2>4. PICK i \in DOMAIN Definitions : Definitions[i].id = id /\ param = Definitions[i]
    BY <2>2, <2>3, LookupFindsTheId, DatabaseOfDefinitions
  <2>5. response.raw_bytes = getValueRaw(param, memory, K_RAW_BUFF_SIZE).bytes
        /\ getValueRaw(param, memory, K_RAW_BUFF_SIZE).result = result_ok
    BY <1>6, <2>1, <2>2 DEF readParamValue, RequestedParameter, TypeMatches, ok,
       unexpected_local_error
  <2>6. response.raw_bytes = SubSeq(memory[param.variable], 1, SizeOf(type))
    BY <2>2, <2>5 DEF getValueRaw, result_ok, buffer_size_mismatch
  <2> QED
    BY <2>2, <2>4, <2>6, WholeVariable
<1> HIDE DEF response, got
<1> QED
  BY <1>4, <1>5, <1>6 DEF ReadResult, got

LEMMA MetaDataAnswers ==
  ASSUME NEW k \in DOMAIN Definitions,
         NEW answer \in Answers(get_parameter_metadata, MetadataPayload(Definitions[k].id))
  PROVE  /\ answer.memory = memory
         /\ fetchedMetaData(CommandResponse(get_parameter_metadata, answer)) = MetaDataOf(k)
<1> DEFINE id       == Definitions[k].id
           data     == MetadataPayload(id)
           request  == [parameter_id |-> id]
           meta     == MetaDataOf(k)
<1>1. PICK u \in Uninitialised : answer = AnswerMetadata(Database, memory, data, u)
  BY DEF Answers, DeviceAnswer, ping, read_parameter_value, write_parameter_value,
     get_parameter_metadata, get_all_registered_parameter_ids
<1>2. DeserializeMetadataRequest(data) = Parsed(request)
  BY DEF DeserializeMetadataRequest, MetadataPayload, SerializeMetadataRequest
<1>3. Database.registered = Definitions
  BY DEF Database, Registered, ParameterDatabase
<1>4. getParameterDefinitionById(Database, id) = Definitions[k]
  <2>1. \A i \in DOMAIN Definitions : Definitions[i].id = id => i = k
    BY DefinitionsAssumption
  <2> QED
    BY <1>3, <2>1, LookupFindsTheId, DatabaseOfDefinitions
<1>5. Definitions[k] # NullDefinition
  BY DefinitionsAreTyped, DefinitionIsNotNull
<1>6. getParamMetaData(Database, request, u) = [response_code |-> ok, meta_data |-> meta]
  <2>1. request.parameter_id = id
    OBVIOUS
  <2> HIDE DEF request
  <2> QED
    BY <2>1, <1>4, <1>5 DEF getParamMetaData, RequestedParameter, MetaDataOf
<1> HIDE DEF data, request
<1>7. answer = Answer(ok, SerializeMetadataResponse(meta), memory)
  BY <1>1, <1>2, <1>6 DEF AnswerMetadata, Parsed
<1>8. DeserializeMetadataResponse(SerializeMetadataResponse(meta)) = Parsed(meta)
  <2>1. Definitions[k] \in DefinitionsOf(Variables)
    BY DefinitionsAreTyped
  <2>2. /\ Definitions[k].id \in Byte /\ Definitions[k].value_type \in ParameterValueType
        /\ Definitions[k].category \in ParameterCategory
        /\ Definitions[k].read_write_access \in ReadWriteAccess
        /\ Definitions[k].name \in Seq(Byte)
    BY <2>1 DEF DefinitionsOf
  <2>3. /\ Definitions[k].name # << >>
        /\ \A j \in DOMAIN Definitions[k].name :
             Definitions[k].name[j] = 0 <=> j = Len(Definitions[k].name)
    BY DefinitionsAssumption
  <2> QED
    BY <2>2, <2>3, DefinitionFacts, MetaDataSurvive
<1> HIDE DEF meta
<1>9. CommandResponse(get_parameter_metadata, answer) = [response_code |-> ok, value |-> meta]
  BY <1>7, <1>8 DEF CommandResponse, Answer, DeserializeResponsePayload, Parsed,
     read_parameter_value, get_parameter_metadata, get_all_registered_parameter_ids
<1> QED
  BY <1>7, <1>9 DEF Answer, fetchedMetaData, meta

LEMMA IdsAreTyped == Ids \in Seq(Byte) /\ Len(Ids) = Len(Definitions)
<1>1. Len(Definitions) \in Nat /\ \A i \in 1..Len(Definitions) : Definitions[i].id \in Byte
  BY DefinitionFacts, DefinitionsAreTyped
<1> QED
  BY <1>1 DEF Ids

LEMMA IdsAnswers ==
  ASSUME NEW answer \in Answers(get_all_registered_parameter_ids, SerializeEmpty)
  PROVE  /\ answer.memory = memory
         /\ fetchedParamIds(CommandResponse(get_all_registered_parameter_ids, answer)) = Ids
<1> DEFINE list == pushedBack(Ids, K_MAX_PARAMETER_ID, 0)
<1>1. answer = AnswerIds(Database, memory)
  BY DEF Answers, DeviceAnswer, ping, read_parameter_value, write_parameter_value,
     get_parameter_metadata, get_all_registered_parameter_ids
<1>2. getParamIds(Database) = list
  <2>1. Database.registered = Definitions
    BY DEF Database, Registered, ParameterDatabase
  <2>2. ASSUME NEW i \in 1..Len(Definitions)
        PROVE  getParameterDefinitionByIndex(Database, i - 1) = Definitions[i]
    <3>1. ~(i - 1 >= Len(Definitions)) /\ (i - 1) + 1 = i
      BY DefinitionsAreTyped
    <3> QED
      BY <2>1, <3>1 DEF getParameterDefinitionByIndex, getAmountOfRegisteredParameters
  <2>3. Ids = [i \in 1..getAmountOfRegisteredParameters(Database) |->
                 getParameterDefinitionByIndex(Database, i - 1).id]
    BY <2>1, <2>2 DEF Ids, getAmountOfRegisteredParameters
  <2> QED
    BY <2>3 DEF getParamIds
<1>3. Contents(list) = Ids
  <2>1. K_MAX_PARAMETER_ID \in Nat /\ 0 \in Byte
    BY ByteAssumption DEF K_MAX_PARAMETER_ID, Byte
  <2>2. FitsIn(Ids, K_MAX_PARAMETER_ID)
    BY IdsAreTyped, DefinitionsAssumption DEF FitsIn
  <2>3. list = listOf(Ids, K_MAX_PARAMETER_ID, 0)
    BY <2>1, <2>2, IdsAreTyped, PushedBackIsListOf
  <2>4. /\ listOf(Ids, K_MAX_PARAMETER_ID, 0) \in StaticLists(Byte, K_MAX_PARAMETER_ID)
        /\ Contents(listOf(Ids, K_MAX_PARAMETER_ID, 0)) = Ids
    BY <2>1, <2>2, IdsAreTyped, ListOfHoldsItsInit
  <2> QED
    BY <2>3, <2>4
<1>4. answer = Answer(ok, Ids, memory)
  BY <1>1, <1>2, <1>3 DEF AnswerIds, SerializeIdsResponse
<1>5. DeserializeIdsResponse(Ids) = Parsed(list)
  BY DEF DeserializeIdsResponse
<1> HIDE DEF list
<1>6. CommandResponse(get_all_registered_parameter_ids, answer)
        = [response_code |-> ok, value |-> list]
  BY <1>4, <1>5 DEF CommandResponse, Answer, DeserializeResponsePayload, Parsed,
     read_parameter_value, get_parameter_metadata, get_all_registered_parameter_ids
<1> QED
  BY <1>3, <1>4, <1>6 DEF Answer, fetchedParamIds

\* After an error the host goes on with no ids, or with metadata of zeros.
LEMMA FailuresGiveNothing ==
  ASSUME NEW code \in {timed_out, corrupted}
  PROVE  /\ FailedResponse(code).response_code # ok
         /\ FailedResponse(code).response_code \in {ok, timed_out, corrupted}
         /\ fetchedParamIds(FailedResponse(code)) = << >>
         /\ fetchedMetaData(FailedResponse(code)) = ZeroMetaData
BY DEF FailedResponse, fetchedParamIds, fetchedMetaData, ok, timed_out, corrupted

\* A write stored behind the i-th definition.
Stored(i, bytes) == [memory EXCEPT ![Definitions[i].variable] = bytes]

LEMMA WriteAnswers ==
  ASSUME NEW i \in DOMAIN Definitions, valueIsWritable(Definitions[i]), NEW n \in Int,
         NEW answer \in Answers(write_parameter_value,
                                SerializeWriteRequest(PutValue(Definitions[i].id,
                                                               Definitions[i].value_type, n)))
  PROVE  /\ answer.memory = Stored(i, Encode(Definitions[i].value_type, n))
         /\ CommandResponse(write_parameter_value, answer).response_code = ok
<1> DEFINE id      == Definitions[i].id
           type    == Definitions[i].value_type
           bytes   == Encode(type, n)
           request == PutValue(id, type, n)
           data    == SerializeWriteRequest(request)
<1>1. answer = AnswerWrite(Database, memory, data)
  BY DEF Answers, DeviceAnswer, ping, read_parameter_value, write_parameter_value,
     get_parameter_metadata, get_all_registered_parameter_ids
<1>2. bytes \in Seq(Byte) /\ Len(bytes) = SizeOf(type) /\ Len(bytes) <= K_RAW_BUFF_SIZE
  <2>1. bytes \in Seq(Byte) /\ Len(bytes) = SizeOf(type) /\ SizeOf(type) \in {0, 1, 2, 4, 8}
    BY DefinitionFacts, EncodingIsBytes
  <2>2. K_RAW_BUFF_SIZE \in Nat /\ K_RAW_BUFF_SIZE > 10
    BY ByteAssumption DEF K_RAW_BUFF_SIZE, K_PAYLOAD_MAX_SIZE
  <2> HIDE DEF bytes
  <2> QED
    BY <2>1, <2>2
<1>3. request = [parameter_id |-> id, expected_value_type |-> type, raw_bytes |-> bytes]
  BY DEF PutValue
<1>4. request.parameter_id = id /\ request.expected_value_type = type /\ request.raw_bytes = bytes
  BY <1>3
<1>5. DeserializeWriteRequest(data) = Parsed(request)
  <2> HIDE DEF bytes
  <2> QED
    BY <1>2, <1>3, DefinitionFacts, WriteRequestSurvives
<1> HIDE DEF bytes, request, data
<1>6. getParameterDefinitionById(Database, id) = Definitions[i]
  <2>1. Database.registered = Definitions
    BY DEF Database, Registered, ParameterDatabase
  <2>2. \A j \in DOMAIN Definitions : Definitions[j].id = id => j = i
    BY DefinitionsAssumption
  <2> QED
    BY <2>1, <2>2, LookupFindsTheId, DatabaseOfDefinitions
<1>7. Definitions[i] # NullDefinition
  BY DefinitionsAreTyped, DefinitionIsNotNull
<1>8. SubSeq(bytes, 1, SizeOf(type)) = bytes
  <2>1. bytes \in Seq(Int)
    BY <1>2, BytesAreIntegers
  <2>2. SubSeq(bytes, 1, Len(bytes)) = bytes
    BY <2>1, SeqEqual
  <2> QED
    BY <1>2, <2>2
<1>9. setValueRaw(Definitions[i], memory, bytes)
        = [result |-> result_ok, memory |-> Stored(i, bytes)]
  <2>1. ~(Len(bytes) < SizeOf(type))
    <3>1. Len(bytes) \in Nat
      BY <1>2
    <3> QED
      BY <1>2, <3>1
  <2> QED
    BY <1>8, <2>1 DEF setValueRaw, Stored
<1>10. writeParamValue(Database, memory, request)
         = [response_code |-> ok, memory |-> Stored(i, bytes)]
  BY <1>4, <1>6, <1>7, <1>9 DEF writeParamValue, RequestedParameter, TypeMatches, result_ok,
     not_allowed
<1>11. answer = Answer(ok, << >>, Stored(i, bytes))
  BY <1>1, <1>5, <1>10 DEF AnswerWrite, Parsed, SerializeEmpty
<1>12. CommandResponse(write_parameter_value, answer) = [response_code |-> ok, value |-> << >>]
  BY <1>11 DEF CommandResponse, Answer, DeserializeResponsePayload, DeserializeEmpty, Parsed,
     read_parameter_value, get_parameter_metadata, get_all_registered_parameter_ids,
     write_parameter_value
<1> QED
  BY <1>11, <1>12 DEF Answer, bytes

\* What a write request of any bytes does: nothing, or what it says, to a writable
\* definition of the id in its first byte.
LEMMA AnyWriteAnswers ==
  ASSUME NEW data \in Seq(Byte)
  PROVE  \/ /\ AnswerWrite(Database, memory, data).memory = memory
            /\ AnswerWrite(Database, memory, data).response_code # ok
         \/ /\ AnswerWrite(Database, memory, data).response_code = ok
            /\ \E i \in DOMAIN Definitions, bytes \in Seq(Byte) :
                 /\ Definitions[i].id = data[1] /\ valueIsWritable(Definitions[i])
                 /\ Len(bytes) = SizeOf(Definitions[i].value_type)
                 /\ AnswerWrite(Database, memory, data).memory = Stored(i, bytes)
<1> DEFINE request == DeserializeWriteRequest(data)
           answer  == writeParamValue(Database, memory, request.value)
           all     == AnswerWrite(Database, memory, data)
<1>1. CASE request.error # no_error
  BY <1>1 DEF AnswerWrite, MalformedRequest, Answer, ok, malformed_request
<1>2. CASE request.error = no_error
  <2>1. all.memory = answer.memory /\ all.response_code = answer.response_code
    BY <1>2 DEF AnswerWrite, Answer
  <2>2. /\ request.value.parameter_id = data[1]
        /\ request.value.raw_bytes = SubSeq(data, 3, Len(data))
    BY <1>2 DEF DeserializeWriteRequest, Failed, Parsed, no_error, payload_missing_bytes,
       payload_does_not_fit
  <2>3. request.value.raw_bytes \in Seq(Byte)
    BY <2>2
  <2>4. ASSUME NEW i \in DOMAIN Database.registered,
               CarriedOut(Database, memory, request.value, answer.memory, i)
        PROVE  \E bytes \in Seq(Byte) :
                 /\ i \in DOMAIN Definitions
                 /\ Definitions[i].id = data[1] /\ valueIsWritable(Definitions[i])
                 /\ Len(bytes) = SizeOf(Definitions[i].value_type)
                 /\ all.memory = Stored(i, bytes)
    <3>1. Database.registered = Definitions
      BY DEF Database, Registered, ParameterDatabase
    <3>2. i \in DOMAIN Definitions /\ SizeOf(Definitions[i].value_type) \in {0, 1, 2, 4, 8}
      BY <2>4, <3>1, DefinitionFacts
    <3> DEFINE raw   == request.value.raw_bytes
               bytes == SubSeq(raw, 1, SizeOf(Definitions[i].value_type))
    <3>3. ~(Len(raw) < SizeOf(Definitions[i].value_type))
      BY <2>4, <3>1 DEF CarriedOut
    <3>4. raw \in Seq(Byte)
      BY <2>3
    <3>5. /\ Definitions[i].id = data[1] /\ valueIsWritable(Definitions[i])
          /\ all.memory = Stored(i, bytes)
      BY <2>1, <2>2, <2>4, <3>1 DEF CarriedOut, Stored
    <3> HIDE DEF raw
    <3>6. bytes \in Seq(Byte) /\ Len(bytes) = SizeOf(Definitions[i].value_type)
      BY <3>2, <3>3, <3>4
    <3> QED
      BY <3>2, <3>5, <3>6
  <2> HIDE DEF answer, request, all
  <2>5. \/ answer.memory = memory /\ answer.response_code # ok
        \/ /\ answer.response_code = ok
           /\ \E i \in DOMAIN Database.registered :
                CarriedOut(Database, memory, request.value, answer.memory, i)
    BY WriteChangesOneWritable, DatabaseOfDefinitions DEF answer
  <2>6. \/ all.memory = memory /\ all.response_code # ok
        \/ /\ all.response_code = ok
           /\ \E i \in DOMAIN Definitions, bytes \in Seq(Byte) :
                /\ Definitions[i].id = data[1] /\ valueIsWritable(Definitions[i])
                /\ Len(bytes) = SizeOf(Definitions[i].value_type)
                /\ all.memory = Stored(i, bytes)
    BY <2>1, <2>4, <2>5
  <2> QED
    BY <2>6 DEF all
<1> QED
  BY <1>1, <1>2

-----------------------------------------------------------------------------
(* What each exchange does to the tool and the device.                     *)

LEMMA ReadsAreTaken ==
  ASSUME MemoryTyped, NEW id, NEW type, NEW response, ReadResult(response, id, type)
  PROVE  ~TakeFails(response, type)
<1> SUFFICES ASSUME response.response_code = ok
             PROVE  Len(response.value) = SizeOf(type)
  BY DEF TakeFails, CanTake
<1> QED
  BY DefinitionFacts DEF ReadResult, MemoryTyped

LEMMA FailuresAreResults ==
  ASSUME NEW id, NEW type, NEW code \in {timed_out, corrupted}
  PROVE  ReadResult(FailedResponse(code), id, type)
BY FailuresGiveNothing DEF ReadResult

LEMMA FindDeviceEffect ==
  ASSUME FindDevice
  PROVE  /\ context = "open" /\ found' \in BOOLEAN /\ job' = Idle
         /\ memory' = memory
         /\ UNCHANGED <<context, tableVars, editor, tool, ghosts>>
<1>1. \A answer \in Answers(ping, PingPayload) : answer.memory = memory
  BY OtherAnswersKeepMemory DEF Answers, ping, write_parameter_value
<1> QED
  BY <1>1 DEF FindDevice, Exchange, Undisturbed, Disturbed

LEMMA FetchIdsEffect ==
  ASSUME FetchIds
  PROVE  /\ job.kind = "ids" /\ memory' = memory
         /\ \E ids \in {Ids, << >>} : FetchNext(ids, rows)
         /\ UNCHANGED <<context, found, rows, by_value, hidden, timer, editor, tool, ghosts>>
<1> DEFINE operation == get_all_registered_parameter_ids
<1>1. \A answer \in Answers(operation, SerializeEmpty) :
        /\ answer.memory = memory
        /\ fetchedParamIds(CommandResponse(operation, answer)) = Ids
  BY IdsAnswers
<1>2. \A code \in {timed_out, corrupted} : fetchedParamIds(FailedResponse(code)) = << >>
  BY FailuresGiveNothing
<1> QED
  BY <1>1, <1>2 DEF FetchIds, Exchange, Undisturbed, Disturbed, Doing

LEMMA FetchMetaDataEffect ==
  ASSUME FetchMetaData, NEW k \in DOMAIN Definitions, Head(job.ids) = Definitions[k].id
  PROVE  /\ job.kind = "metadata" /\ memory' = memory
         /\ \E meta_data \in {MetaDataOf(k), ZeroMetaData} :
              job' = [kind |-> "value", ids |-> job.ids, meta_data |-> meta_data]
         /\ UNCHANGED <<context, found, tableVars, editor, tool, ghosts>>
<1> DEFINE operation == get_parameter_metadata
           payload   == MetadataPayload(Head(job.ids))
<1>1. \A answer \in Answers(operation, payload) :
        /\ answer.memory = memory
        /\ fetchedMetaData(CommandResponse(operation, answer)) = MetaDataOf(k)
  BY MetaDataAnswers
<1>2. \A code \in {timed_out, corrupted} : fetchedMetaData(FailedResponse(code)) = ZeroMetaData
  BY FailuresGiveNothing
<1> QED
  BY <1>1, <1>2 DEF FetchMetaData, Exchange, Undisturbed, Disturbed, Doing

LEMMA FetchValueEffect ==
  ASSUME MemoryTyped, FetchValue
  PROVE  /\ job.kind = "value" /\ memory' = memory
         /\ \E response :
              /\ ReadResult(response, Head(job.ids), job.meta_data.value_type)
              /\ rows' = Append(rows, [meta_data |-> job.meta_data,
                                       value |-> readValue(response, job.meta_data.value_type)])
              /\ doubt' = DoubtAfterRead(job.meta_data.id, response)
         /\ FetchNext(Tail(job.ids), rows')
         /\ UNCHANGED <<context, found, by_value, hidden, timer, editor, tool, refused, resorted>>
<1> DEFINE type    == job.meta_data.value_type
           id      == Head(job.ids)
           payload == ReadPayload(id, type)
           Outcome(response) ==
             /\ rows' = Append(rows, [meta_data |-> job.meta_data,
                                      value |-> readValue(response, type)])
             /\ doubt' = DoubtAfterRead(job.meta_data.id, response)
             /\ FetchNext(Tail(job.ids), rows')
             /\ UNCHANGED tool
<1>1. \A answer \in Answers(read_parameter_value, payload) :
        /\ answer.memory = memory
        /\ ReadResult(CommandResponse(read_parameter_value, answer), id, type)
        /\ ~TakeFails(CommandResponse(read_parameter_value, answer), type)
  BY ReadAnswers, ReadsAreTaken
<1>2. \A code \in {timed_out, corrupted} :
        ReadResult(FailedResponse(code), id, type) /\ ~TakeFails(FailedResponse(code), type)
  BY FailuresAreResults, FailuresAreNotTaken
<1>3. memory' = memory /\ \E response : ReadResult(response, id, type) /\ Outcome(response)
  BY <1>1, <1>2 DEF FetchValue, Exchange, Undisturbed, Disturbed
<1>4. /\ job.kind = "value"
      /\ UNCHANGED <<context, found, by_value, hidden, timer, editor, refused, resorted>>
  BY DEF FetchValue, Exchange, Doing
<1> QED
  BY <1>3, <1>4

LEMMA RefreshRowEffect ==
  ASSUME MemoryTyped, RefreshRow
  PROVE  /\ job.kind = "refresh" /\ memory' = memory
         /\ \E response :
              /\ ReadResult(response, rows[job.row].meta_data.id,
                            rows[job.row].meta_data.value_type)
              /\ rows' = [rows EXCEPT ![job.row].value =
                            readValue(response, rows[job.row].meta_data.value_type)]
              /\ doubt' = DoubtAfterRead(rows[job.row].meta_data.id, response)
         /\ Reorder(OrdersAfterChange)
         /\ RefreshFrom(job.only_signals, job.row + 1)
         /\ UNCHANGED <<context, found, view, by_value, hidden, timer, editor, tool, refused>>
<1> DEFINE type    == rows[job.row].meta_data.value_type
           id      == rows[job.row].meta_data.id
           payload == ReadPayload(id, type)
           Outcome(response) ==
             /\ rows' = [rows EXCEPT ![job.row].value = readValue(response, type)]
             /\ doubt' = DoubtAfterRead(id, response)
             /\ Reorder(OrdersAfterChange)
             /\ RefreshFrom(job.only_signals, job.row + 1)
             /\ UNCHANGED tool
<1>1. \A answer \in Answers(read_parameter_value, payload) :
        /\ answer.memory = memory
        /\ ReadResult(CommandResponse(read_parameter_value, answer), id, type)
        /\ ~TakeFails(CommandResponse(read_parameter_value, answer), type)
  BY ReadAnswers, ReadsAreTaken
<1>2. \A code \in {timed_out, corrupted} :
        ReadResult(FailedResponse(code), id, type) /\ ~TakeFails(FailedResponse(code), type)
  BY FailuresAreResults, FailuresAreNotTaken
<1>3. memory' = memory /\ \E response : ReadResult(response, id, type) /\ Outcome(response)
  BY <1>1, <1>2 DEF RefreshRow, Exchange, Undisturbed, Disturbed
<1>4. /\ job.kind = "refresh"
      /\ UNCHANGED <<context, found, view, by_value, hidden, timer, editor, refused>>
  BY DEF RefreshRow, Exchange, Doing
<1> QED
  BY <1>3, <1>4

-----------------------------------------------------------------------------
(* The tool, its table and the device's memory fit together: the invariant *)
(* behind the table's properties, and what each of its parts gives.        *)

\* Each of the rows stands once in the order.
Arranged(o) ==
  /\ o \in Seq(Nat) /\ Len(o) = Len(rows)
  /\ {o[p] : p \in DOMAIN o} = 1..Len(o)

ModesFit ==
  /\ context \in {"null", "open", "destroyed"} /\ found \in BOOLEAN
  /\ view \in {"none", "filling", "open"}
  /\ tool \in {"running", "terminated", "asserted", "undefined"}
  /\ resorted \in BOOLEAN /\ refused \in BOOLEAN
  /\ context = "null" => ~found
  /\ doubt \subseteq {Definitions[i].id : i \in DOMAIN Definitions} \cup {0}

\* The rows so far are those of the first definitions.
RowsFit ==
  /\ rows \in Seq(Row) /\ Len(rows) <= Len(Definitions)
  /\ \A r \in DOMAIN rows : rows[r].meta_data \in {MetaDataOf(r), ZeroMetaData}
  /\ view = "none" => rows = << >>
  /\ view = "open" => /\ Len(rows) \in {0, Len(Definitions)}
                     /\ Arranged(order)
  /\ view # "open" => order = << >>

Editable(r) == r \in DOMAIN rows /\ parameterIsEditable(rows[r])

\* While the table is filled, the ids that are left are those behind its rows.
JobFits ==
  /\ job.kind \in {"idle", "ping", "ids", "metadata", "value", "refresh", "write"}
  /\ job.kind = "ids" => view = "filling" /\ rows = << >>
  /\ job.kind \in {"metadata", "value"} =>
       /\ view = "filling" /\ Len(rows) < Len(Definitions)
       /\ job.ids = SubSeq(Ids, Len(rows) + 1, Len(Definitions))
  /\ job.kind = "value" => job.meta_data \in {MetaDataOf(Len(rows) + 1), ZeroMetaData}
  /\ job.kind = "refresh" => view = "open" /\ job.row \in DOMAIN rows
  /\ job.kind = "write" =>
       /\ view = "open"
       /\ \E r \in DOMAIN rows :
            /\ Editable(r)
            /\ job.id = rows[r].meta_data.id /\ job.value = rows[r].value

EditorFits ==
  editor # NoEditor =>
    /\ view = "open" /\ Editable(editor.row) /\ editor.row \notin hidden
    /\ editor.shown \in Int
    /\ resorted \/ editor.kind = createEditor(editor.row)

Consistent ==
  /\ MemoryTyped /\ ModesFit /\ RowsFit /\ JobFits /\ EditorFits
  /\ UndefinedOnlyAfter /\ TakeNeverFails

LEMMA RowFacts ==
  ASSUME RowsFit
  PROVE  /\ DOMAIN rows = 1..Len(rows) /\ Len(rows) \in Nat /\ Len(Definitions) \in Nat
         /\ DOMAIN Definitions = 1..Len(Definitions)
         /\ \A r \in DOMAIN rows : /\ rows[r] \in Row /\ r \in DOMAIN Definitions
                                 /\ rows[r].meta_data \in MetaDatas /\ rows[r].value \in Int
                                 /\ rows[r].meta_data.value_type \in ParameterValueType
                                 /\ rows[r].meta_data.id \in Byte
<1>1. Len(Definitions) \in Nat /\ DOMAIN Definitions = 1..Len(Definitions)
  BY DefinitionsAreTyped
<1>2. rows \in Seq(Row) /\ Len(rows) <= Len(Definitions)
  BY DEF RowsFit
<1>3. \A row \in Row : /\ row.meta_data \in MetaDatas /\ row.value \in Int
                       /\ row.meta_data.value_type \in ParameterValueType
                       /\ row.meta_data.id \in Byte
  BY DEF Row, MetaDatas
<1> QED
  BY <1>1, <1>2, <1>3

LEMMA ZeroMetaDataIsTyped == ZeroMetaData \in MetaDatas
<1>1. 0 \in Byte /\ <<0>> \in Seq(Byte)
  BY ByteAssumption DEF Byte
<1> QED
  BY <1>1 DEF ZeroMetaData, MetaDatas, ParameterCategory, ParameterValueType, ReadWriteAccess,
     saved_parameter, signal, uint8, none, read_only, read_write

\* The row the delegate reads is one of the table's.
LEMMA ProxyRowIsARow ==
  ASSUME RowsFit, view = "open", NEW r \in DOMAIN rows, r \notin hidden
  PROVE  ProxyRow(r) \in DOMAIN rows
<1> DEFINE p == Position(r)
           S == {q \in 1..p : order[q] \notin hidden}
<1>1. Arranged(order) /\ DOMAIN rows = 1..Len(rows) /\ Len(rows) \in Nat
  BY RowFacts DEF RowsFit
<1>2. \E q \in DOMAIN order : order[q] = r
  BY <1>1 DEF Arranged
<1>3. p \in DOMAIN order /\ order[p] = r
  BY <1>2 DEF Position
<1>4. p \in 1..Len(rows)
  BY <1>1, <1>3 DEF Arranged
<1> HIDE DEF p
<1>5. p \in S /\ S \subseteq 1..p
  BY <1>3, <1>4
<1>6. IsFiniteSet(1..p) /\ Cardinality(1..p) = p
  BY <1>4, FS_Interval
<1> HIDE DEF S
<1>7. IsFiniteSet(S) /\ Cardinality(S) <= Cardinality(1..p) /\ Cardinality(S) \in Nat
  BY <1>5, <1>6, FS_Subset, FS_CardinalityType
<1>8. Cardinality(S) # 0
  BY <1>5, <1>7, FS_EmptySet
<1>9. Cardinality(S) \in 1..Len(rows)
  BY <1>1, <1>4, <1>6, <1>7, <1>8
<1> QED
  BY <1>1, <1>9 DEF ProxyRow, p, S

\* A refresh goes on with one of the rows, or is done.
LEMMA RefreshGoesOn ==
  ASSUME RowsFit, NEW only_signals, NEW from \in Nat \ {0}, RefreshFrom(only_signals, from)
  PROVE  \/ job' = Idle
         \/ \E r \in DOMAIN rows :
              /\ job' = [kind |-> "refresh", only_signals |-> only_signals, row |-> r]
              /\ from <= r
<1> DEFINE T == NextToRead(only_signals, from)
<1>1. T \subseteq DOMAIN rows /\ T \subseteq Nat /\ \A r \in T : from <= r
  BY RowFacts DEF NextToRead
<1>2. CASE T = {}
  BY <1>2 DEF RefreshFrom
<1>3. CASE T # {}
  <2> HIDE DEF T
  <2>1. \E r \in T : \A q \in T : r <= q
    BY <1>1, <1>3, LeastNatural
  <2>2. (CHOOSE r \in T : \A q \in T : r <= q) \in T
    BY <2>1
  <2> QED
    BY <1>1, <1>3, <2>2 DEF RefreshFrom, T
<1> QED
  BY <1>2, <1>3

LEMMA OrdersAreArranged ==
  ASSUME NEW o \in Orders, Len(o) = Len(rows)
  PROVE  Arranged(o)
BY InputsAssumption DEF Arranged

LEMMA ReorderingArranges ==
  ASSUME RowsFit, view = "open", resorted \in BOOLEAN,
         \/ Reorder(OrdersAfterChange)
         \/ Reorder({o \in Orders : Len(o) = Len(rows)})
  PROVE  /\ Arranged(order')
         /\ resorted' \in BOOLEAN
         /\ ~resorted' => ~resorted /\ (editor # NoEditor => order' = order)
<1>1. Arranged(order)
  BY DEF RowsFit
<1>2. \/ order' = order
      \/ order' \in Orders /\ Len(order') = Len(rows)
  BY DEF Reorder, OrdersAfterChange
<1>3. Arranged(order')
  BY <1>1, <1>2, OrdersAreArranged
<1>4. resorted' = (resorted \/ (editor # NoEditor /\ order' # order))
  BY DEF Reorder
<1> QED
  BY <1>3, <1>4

\* Rows with other values.
SameMetaData ==
  /\ rows' \in Seq(Row) /\ Len(rows') = Len(rows)
  /\ \A r \in DOMAIN rows : rows'[r].meta_data = rows[r].meta_data

LEMMA ValueChangeKeepsMetaData ==
  ASSUME RowsFit, NEW r \in DOMAIN rows, NEW value \in Int,
         rows' = [rows EXCEPT ![r].value = value]
  PROVE  /\ SameMetaData /\ rows'[r].value = value
         /\ \A q \in DOMAIN rows : q # r => rows'[q] = rows[q]
<1>1. rows \in Seq(Row) /\ rows[r] \in Row
  BY RowFacts DEF RowsFit
<1> DEFINE new == [rows[r] EXCEPT !.value = value]
<1>2. new \in Row /\ new.meta_data = rows[r].meta_data /\ new.value = value
  BY <1>1 DEF Row
<1>3. rows' = [rows EXCEPT ![r] = new]
  OBVIOUS
<1> HIDE DEF new
<1>4. /\ rows' \in Seq(Row) /\ Len(rows') = Len(rows) /\ rows'[r] = new
      /\ \A q \in DOMAIN rows : q # r => rows'[q] = rows[q]
  BY <1>1, <1>2, <1>3
<1> QED
  BY <1>2, <1>4 DEF SameMetaData

LEMMA SameMetaDataKeepsRowsFit ==
  ASSUME RowsFit, SameMetaData, view' = view, view = "open", Arranged(order')
  PROVE  RowsFit'
<1>1. DOMAIN rows' = DOMAIN rows /\ Len(rows') = Len(rows)
  BY RowFacts DEF SameMetaData
<1>2. Arranged(order)'
  BY <1>1 DEF Arranged
<1> QED
  BY <1>1, <1>2 DEF RowsFit, SameMetaData

LEMMA SameMetaDataKeepsEditor ==
  ASSUME RowsFit, EditorFits, SameMetaData, view' = view, hidden' = hidden, editor' = editor,
         ~resorted' => ~resorted /\ (editor # NoEditor => order' = order), resorted' \in BOOLEAN
  PROVE  EditorFits'
<1> SUFFICES ASSUME editor # NoEditor
             PROVE  /\ view = "open" /\ Editable(editor.row)' /\ editor.row \notin hidden
                    /\ editor.shown \in Int
                    /\ resorted' \/ editor.kind = createEditor(editor.row)'
  BY DEF EditorFits
<1>1. /\ view = "open" /\ Editable(editor.row) /\ editor.row \notin hidden
      /\ editor.shown \in Int /\ (resorted \/ editor.kind = createEditor(editor.row))
  BY DEF EditorFits
<1>2. DOMAIN rows' = DOMAIN rows
  BY RowFacts DEF SameMetaData
<1>3. Editable(editor.row)'
  BY <1>1, <1>2 DEF Editable, parameterIsEditable, SameMetaData
<1>4. ASSUME ~resorted'
      PROVE  createEditor(editor.row)' = createEditor(editor.row)
  <2>1. order' = order
    BY <1>4
  <2>2. ProxyRow(editor.row)' = ProxyRow(editor.row)
    BY <2>1 DEF ProxyRow, Position
  <2>3. ProxyRow(editor.row) \in DOMAIN rows
    BY <1>1, ProxyRowIsARow DEF Editable
  <2> QED
    BY <2>2, <2>3 DEF createEditor, DelegateRow, SameMetaData
<1> QED
  BY <1>1, <1>3, <1>4

-----------------------------------------------------------------------------
(* Each action keeps it.                                                   *)

LEMMA Unmoved ==
         /\ RowsFit /\ UNCHANGED <<rows, view, order>> => RowsFit'
         /\ EditorFits /\ UNCHANGED <<rows, view, order, hidden, editor, resorted>> => EditorFits'
         /\ JobFits /\ UNCHANGED <<rows, view, job>> => JobFits'
         /\ editor' = NoEditor => EditorFits'
         /\ job' = Idle \/ job' = [kind |-> "ping"] => JobFits'
         /\ MemoryTyped /\ memory' = memory => MemoryTyped'
<1>1. RowsFit /\ UNCHANGED <<rows, view, order>> => RowsFit'
  BY DEF RowsFit, Arranged
<1>2. EditorFits /\ UNCHANGED <<rows, view, order, hidden, editor, resorted>> => EditorFits'
  BY DEF EditorFits, Editable, parameterIsEditable, createEditor, DelegateRow, ProxyRow, Position
<1>3. JobFits /\ UNCHANGED <<rows, view, job>> => JobFits'
  BY DEF JobFits, Editable, parameterIsEditable
<1>4. editor' = NoEditor => EditorFits'
  BY DEF EditorFits
<1>5. job' = Idle \/ job' = [kind |-> "ping"] => JobFits'
  BY DEF JobFits, Idle
<1>6. MemoryTyped /\ memory' = memory => MemoryTyped'
  BY DEF MemoryTyped
<1> QED
  BY <1>1, <1>2, <1>3, <1>4, <1>5, <1>6

LEMMA StoringKeepsTypes ==
  ASSUME MemoryTyped, NEW i \in DOMAIN Definitions, NEW bytes \in Seq(Byte),
         Len(bytes) = SizeOf(Definitions[i].value_type), memory' = Stored(i, bytes)
  PROVE  MemoryTyped'
BY DefinitionFacts DEF MemoryTyped, Stored

LEMMA Uint32Facts == uint32 \in ParameterValueType /\ SizeOf(uint32) = 4 /\ uint32 # boolean
BY SMTT(30) DEF ParameterValueType, SizeOf, uint8, uint16, uint32, uint64, int8, int16, int32,
   int64, floating_point, double_float, boolean, none

LEMMA Uint32Encodes ==
  \A n \in Int : Encode(uint32, n) \in Seq(Byte) /\ Len(Encode(uint32, n)) = 4
BY Uint32Facts, EncodingIsBytes

LEMMA InitialMemoryTyped ==
  /\ InitialMemory \in [Variables -> Seq(Byte)]
  /\ InitialMemory["test_uint32"] = Encode(uint32, 123456)
<1>1. \A type \in {uint8, uint16, uint32, floating_point, boolean, uint64} :
        type \in ParameterValueType
  BY SMTT(30) DEF ParameterValueType, uint8, uint16, uint32, uint64, int8, int16, int32,
     int64, floating_point, double_float, boolean, none
<1>2. \A type \in {uint8, uint16, uint32, floating_point, boolean, uint64}, n \in Int :
        Encode(type, n) \in Seq(Byte)
  BY <1>1, EncodingIsBytes
<1> DEFINE Encodes(type) == \A n \in Int : Encode(type, n) \in Seq(Byte)
<1>4. /\ Encodes(uint8) /\ Encodes(uint16) /\ Encodes(uint32) /\ Encodes(floating_point)
      /\ Encodes(boolean) /\ Encodes(uint64)
  BY <1>2
<1>5. 42 \in Int /\ 1337 \in Int /\ 123456 \in Int /\ 3 \in Int /\ 1 \in Int
  OBVIOUS
<1>3. /\ Encode(uint8, 42) \in Seq(Byte) /\ Encode(uint16, 1337) \in Seq(Byte)
      /\ Encode(uint32, 123456) \in Seq(Byte) /\ Encode(floating_point, 3) \in Seq(Byte)
      /\ Encode(boolean, 1) \in Seq(Byte) /\ Encode(uint64, 123456) \in Seq(Byte)
  <2>1. Encode(uint8, 42) \in Seq(Byte)
    BY <1>4
  <2>2. Encode(uint16, 1337) \in Seq(Byte)
    BY <1>4
  <2>3. Encode(uint32, 123456) \in Seq(Byte)
    BY <1>4
  <2>4. Encode(floating_point, 3) \in Seq(Byte)
    BY <1>4
  <2>5. Encode(boolean, 1) \in Seq(Byte)
    BY <1>4
  <2>6. Encode(uint64, 123456) \in Seq(Byte)
    BY <1>4
  <2> QED
    BY <2>1, <2>2, <2>3, <2>4, <2>5, <2>6
<1> QED
  BY <1>3 DEF InitialMemory, Variables

LEMMA CountingKeepsTypes ==
  ASSUME MemoryTyped, memory' = CountedLoop(memory)
  PROVE  MemoryTyped'
<1> DEFINE count == Decode(uint32, memory["test_uint32"]) + 1
           bytes == Encode(uint32, count)
<1>1. "test_uint32" \in Variables
  BY DEF Variables, InitialMemory
<1>2. Decode(uint32, memory["test_uint32"]) \in Int
  BY <1>1, DecodingIsWhole DEF MemoryTyped
<1>3. bytes \in Seq(Byte) /\ Len(bytes) = 4
  BY <1>2, Uint32Encodes
<1>4. Len(InitialMemory["test_uint32"]) = 4
  BY InitialMemoryTyped, Uint32Encodes
<1>5. memory' = [memory EXCEPT !["test_uint32"] = bytes]
  BY DEF CountedLoop
<1> HIDE DEF bytes
<1> QED
  BY <1>1, <1>3, <1>4, <1>5 DEF MemoryTyped

LEMMA DeviceStepsKeep ==
  ASSUME Consistent, MainLoop \/ Restart \/ OtherToolWrites
  PROVE  Consistent'
<1>1. UNCHANGED toolVars
  BY DEF MainLoop, Restart, OtherToolWrites
<1>2. RowsFit' /\ EditorFits' /\ JobFits' /\ UndefinedOnlyAfter' /\ TakeNeverFails'
  BY <1>1, Unmoved DEF Consistent, toolVars, tableVars, UndefinedOnlyAfter, TakeNeverFails
<1>3. CASE MainLoop
  <2>1. MemoryTyped' /\ doubt' = doubt
    BY <1>3, CountingKeepsTypes DEF Consistent, MainLoop
  <2> QED
    BY <1>1, <1>2, <2>1 DEF Consistent, ModesFit, toolVars, tableVars
<1>4. CASE Restart
  <2>1. MemoryTyped' /\ doubt' = WritableIds
    BY <1>4, InitialMemoryTyped DEF Restart, MemoryTyped
  <2> QED
    BY <1>1, <1>2, <2>1 DEF Consistent, ModesFit, toolVars, tableVars, WritableIds
<1>5. CASE OtherToolWrites
  <2>1. PICK data \in OtherWrites :
          /\ memory' = AnswerWrite(Database, memory, data).memory
          /\ doubt' = IF AnswerWrite(Database, memory, data).response_code = ok
                      THEN doubt \cup {data[1]} ELSE doubt
    BY <1>5 DEF OtherToolWrites
  <2>2. data \in Seq(Byte)
    BY InputsAssumption
  <2>3. MemoryTyped' /\ doubt' \subseteq doubt \cup {Definitions[i].id : i \in DOMAIN Definitions}
    BY <2>1, <2>2, AnyWriteAnswers, StoringKeepsTypes DEF Consistent, MemoryTyped
  <2> QED
    BY <1>1, <1>2, <2>3 DEF Consistent, ModesFit, toolVars, tableVars
<1> QED
  BY <1>3, <1>4, <1>5

LEMMA WindowStepsKeep ==
  ASSUME Consistent, RefreshDevices \/ PortChosen \/ NoPortChosen
  PROVE  Consistent'
<1>1. /\ UNCHANGED <<memory, tableVars, editor, ghosts>> /\ tool = "running"
      /\ found' = FALSE /\ (job' = Idle \/ job' = [kind |-> "ping"])
      /\ context' \in {context, "open", "destroyed"}
      /\ tool' \in {tool, "undefined"}
  BY DEF RefreshDevices, PortChosen, NoPortChosen, refreshDeviceList, deviceVars, UserMayClick
<1>2. MemoryTyped' /\ RowsFit' /\ EditorFits' /\ JobFits'
  BY <1>1, Unmoved DEF Consistent, tableVars, ghosts
<1>3. ModesFit'
  BY <1>1 DEF Consistent, ModesFit, tableVars, ghosts
<1>4. UndefinedOnlyAfter' /\ TakeNeverFails'
  BY <1>1 DEF UndefinedOnlyAfter, TakeNeverFails
<1> QED
  BY <1>2, <1>3, <1>4 DEF Consistent

LEMMA OpenViewKeeps ==
  ASSUME Consistent, OpenView
  PROVE  Consistent'
<1>1. /\ UNCHANGED <<memory, context, found, rows, order, hidden, tool, ghosts>>
      /\ tool = "running" /\ editor' = NoEditor /\ view = "none" /\ view' = "filling"
      /\ job' = [kind |-> "ids"]
  BY DEF OpenView, UserMayClick, deviceVars
<1>2. MemoryTyped' /\ EditorFits'
  BY <1>1, Unmoved DEF Consistent
<1>3. RowsFit' /\ JobFits'
  BY <1>1 DEF Consistent, RowsFit, JobFits
<1>4. ModesFit' /\ UndefinedOnlyAfter' /\ TakeNeverFails'
  BY <1>1 DEF Consistent, ModesFit, ghosts, UndefinedOnlyAfter, TakeNeverFails
<1> QED
  BY <1>2, <1>3, <1>4 DEF Consistent

LEMMA FindDeviceKeeps ==
  ASSUME Consistent, FindDevice
  PROVE  Consistent'
<1>1. /\ context = "open" /\ found' \in BOOLEAN /\ job' = Idle /\ memory' = memory
      /\ UNCHANGED <<context, tableVars, editor, tool, ghosts>> /\ tool = "running"
  BY FindDeviceEffect DEF FindDevice, Doing
<1>2. MemoryTyped' /\ RowsFit' /\ EditorFits' /\ JobFits'
  BY <1>1, Unmoved DEF Consistent, tableVars, ghosts
<1>3. ModesFit' /\ UndefinedOnlyAfter' /\ TakeNeverFails'
  BY <1>1 DEF Consistent, ModesFit, tableVars, ghosts, UndefinedOnlyAfter, TakeNeverFails
<1> QED
  BY <1>2, <1>3 DEF Consistent

LEMMA IdsAhead ==
  ASSUME NEW n \in Nat, n < Len(Definitions)
  PROVE  LET ids == SubSeq(Ids, n + 1, Len(Definitions)) IN
         /\ ids # << >> /\ Head(ids) = Definitions[n + 1].id /\ n + 1 \in DOMAIN Definitions
         /\ n + 1 = Len(Definitions) => Tail(ids) = << >>
         /\ n + 1 < Len(Definitions) => /\ Tail(ids) = SubSeq(Ids, n + 2, Len(Definitions))
                                        /\ Tail(ids) # << >>
<1> DEFINE L == Len(Definitions)
           ids == SubSeq(Ids, n + 1, L)
<1>1. Ids \in Seq(Int) /\ Len(Ids) = L /\ L \in Nat /\ DOMAIN Definitions = 1..L
  BY IdsAreTyped, BytesAreIntegers, DefinitionsAreTyped
<1>2. n + 1 \in 1..L /\ Ids[n + 1] = Definitions[n + 1].id
  BY <1>1 DEF Ids
<1> HIDE DEF L
<1>3. ids \in Seq(Int) /\ Len(ids) = L - n /\ \A i \in 1..L - n : ids[i] = Ids[n + i]
  BY <1>1, <1>2
<1>4. ids # << >> /\ Head(ids) = Ids[n + 1]
  BY <1>1, <1>2, <1>3
<1>5. Tail(ids) \in Seq(Int) /\ Len(Tail(ids)) = L - n - 1
      /\ \A i \in 1..L - n - 1 : Tail(ids)[i] = ids[i + 1]
  BY <1>3, <1>4
<1>6. n + 1 = L => Tail(ids) = << >>
  BY <1>1, <1>5, EmptySeq
<1>7. ASSUME n + 1 < L
      PROVE  Tail(ids) = SubSeq(Ids, n + 2, L) /\ Tail(ids) # << >>
  <2> DEFINE rest == SubSeq(Ids, n + 2, L)
  <2>1. /\ rest \in Seq(Int) /\ Len(rest) = L - n - 1
        /\ \A i \in 1..L - n - 1 : rest[i] = Ids[n + 1 + i]
    BY <1>1, <1>7
  <2> HIDE DEF rest, ids
  <2>2. \A i \in 1..L - n - 1 : Tail(ids)[i] = rest[i]
    <3>1. TAKE i \in 1..L - n - 1
    <3>2. i + 1 \in 1..L - n /\ n + (i + 1) = n + 1 + i
      BY <1>1
    <3> QED
      BY <2>1, <3>2, <1>3, <1>5
  <2>3. Tail(ids) = rest
    BY <1>5, <2>1, <2>2, SeqEqual
  <2>4. Len(Tail(ids)) > 0
    BY <1>5, <1>7, <1>1
  <2>5. Tail(ids) # << >>
    BY <2>4, <1>5, EmptySeq
  <2> QED
    BY <2>3, <2>5 DEF rest
<1> QED
  BY <1>2, <1>4, <1>6, <1>7 DEF L

LEMMA StraightIsArranged ==
  ASSUME NEW o, NEW n \in Nat, o = [r \in 1..n |-> r]
  PROVE  o \in Seq(Nat) /\ Len(o) = n /\ {o[p] : p \in DOMAIN o} = 1..Len(o)
<1>1. o \in Seq(Nat) /\ Len(o) = n /\ DOMAIN o = 1..n
  OBVIOUS
<1>2. {o[p] : p \in 1..n} = 1..n
  OBVIOUS
<1> QED
  BY <1>1, <1>2

\* The ids ahead of the rows are fetched next, or the table is open.
LEMMA FetchNextKeeps ==
  ASSUME NEW ids, FetchNext(ids, rows'), view = "filling", order = << >>,
         rows' \in Seq(Row), Len(rows') <= Len(Definitions),
         \A r \in DOMAIN rows' : rows'[r].meta_data \in {MetaDataOf(r), ZeroMetaData},
         \/ ids = << >> /\ Len(rows') \in {0, Len(Definitions)}
         \/ /\ ids # << >> /\ Len(rows') < Len(Definitions)
            /\ ids = SubSeq(Ids, Len(rows') + 1, Len(Definitions))
  PROVE  RowsFit' /\ JobFits' /\ view' \in {"filling", "open"}
<1>1. CASE ids = << >>
  <2>1. /\ view' = "open" /\ order' = [r \in DOMAIN rows' |-> r] /\ job' = Idle
        /\ Len(rows') \in {0, Len(Definitions)}
    BY <1>1 DEF FetchNext
  <2>2. Len(rows') \in Nat /\ DOMAIN rows' = 1..Len(rows')
    OBVIOUS
  <2>3. Arranged(order)'
    BY <2>1, <2>2, StraightIsArranged DEF Arranged
  <2>4. RowsFit'
    BY <2>1, <2>3 DEF RowsFit
  <2> QED
    BY <2>1, <2>4, Unmoved
<1>2. CASE ids # << >>
  <2>1. /\ view' = "filling" /\ order' = << >> /\ job' = [kind |-> "metadata", ids |-> ids]
        /\ Len(rows') < Len(Definitions)
        /\ ids = SubSeq(Ids, Len(rows') + 1, Len(Definitions))
    BY <1>2 DEF FetchNext
  <2>2. RowsFit'
    BY <2>1 DEF RowsFit
  <2>3. JobFits'
    BY <2>1 DEF JobFits
  <2> QED
    BY <2>1, <2>2, <2>3
<1> QED
  BY <1>1, <1>2

LEMMA NoEditorWhileFilling ==
  ASSUME Consistent, view = "filling"
  PROVE  editor = NoEditor
BY DEF Consistent, EditorFits

LEMMA FetchIdsKeeps ==
  ASSUME Consistent, FetchIds
  PROVE  Consistent'
<1>1. /\ job.kind = "ids" /\ memory' = memory /\ tool = "running"
      /\ UNCHANGED <<context, found, rows, by_value, hidden, timer, editor, tool, ghosts>>
  BY FetchIdsEffect DEF FetchIds, Doing
<1>2. PICK ids \in {Ids, << >>} : FetchNext(ids, rows)
  BY FetchIdsEffect
<1>3. view = "filling" /\ rows = << >> /\ order = << >>
  BY <1>1 DEF Consistent, JobFits, RowsFit
<1>4. rows' = rows
  BY <1>1
<1>5. RowsFit' /\ JobFits' /\ view' \in {"filling", "open"}
  <2>1. /\ FetchNext(ids, rows') /\ rows' \in Seq(Row) /\ Len(rows') <= Len(Definitions)
        /\ \A r \in DOMAIN rows' : rows'[r].meta_data \in {MetaDataOf(r), ZeroMetaData}
    BY <1>2, <1>4 DEF Consistent, RowsFit
  <2>2. Len(rows') = 0 /\ Len(Definitions) \in Nat
    BY <1>3, <1>4, DefinitionsAreTyped
  <2>3. CASE ids = << >>
    BY <1>3, <2>1, <2>2, <2>3, FetchNextKeeps
  <2>4. CASE ids # << >>
    <3>1. ids = Ids /\ Len(Ids) = Len(Definitions)
      BY <1>2, <2>4, IdsAreTyped
    <3>2. Ids \in Seq(Int) /\ Ids # << >>
      BY <2>4, <3>1, IdsAreTyped, BytesAreIntegers
    <3>3. SubSeq(Ids, 1, Len(Ids)) = Ids /\ Len(Ids) > 0
      BY <3>2, SeqEqual, EmptySeq
    <3>4. Len(rows') < Len(Definitions) /\ ids = SubSeq(Ids, Len(rows') + 1, Len(Definitions))
      BY <2>2, <3>1, <3>3
    <3> QED
      BY <1>3, <2>1, <2>4, <3>4, FetchNextKeeps
  <2> QED
    BY <2>3, <2>4
<1>6. MemoryTyped' /\ EditorFits'
  BY <1>1, <1>3, NoEditorWhileFilling, Unmoved DEF Consistent
<1>7. ModesFit' /\ UndefinedOnlyAfter' /\ TakeNeverFails'
  BY <1>1, <1>5 DEF Consistent, ModesFit, ghosts, UndefinedOnlyAfter, TakeNeverFails
<1> QED
  BY <1>5, <1>6, <1>7 DEF Consistent

LEMMA FetchMetaDataKeeps ==
  ASSUME Consistent, FetchMetaData
  PROVE  Consistent'
<1> DEFINE k == Len(rows) + 1
<1>1. job.kind = "metadata" /\ tool = "running"
  BY DEF FetchMetaData, Doing
<1>2. /\ view = "filling" /\ Len(rows) < Len(Definitions)
      /\ job.ids = SubSeq(Ids, Len(rows) + 1, Len(Definitions))
  BY <1>1 DEF Consistent, JobFits
<1>3. k \in DOMAIN Definitions /\ Head(job.ids) = Definitions[k].id
  BY <1>2, IdsAhead, RowFacts DEF Consistent
<1>4. /\ memory' = memory
      /\ \E meta_data \in {MetaDataOf(k), ZeroMetaData} :
           job' = [kind |-> "value", ids |-> job.ids, meta_data |-> meta_data]
      /\ UNCHANGED <<context, found, tableVars, editor, tool, ghosts>>
  BY <1>3, FetchMetaDataEffect
<1>5. JobFits'
  BY <1>2, <1>4 DEF JobFits, tableVars
<1>6. MemoryTyped' /\ RowsFit' /\ EditorFits'
  BY <1>4, Unmoved DEF Consistent, tableVars, ghosts
<1>7. ModesFit' /\ UndefinedOnlyAfter' /\ TakeNeverFails'
  BY <1>1, <1>4 DEF Consistent, ModesFit, tableVars, ghosts, UndefinedOnlyAfter, TakeNeverFails
<1> QED
  BY <1>5, <1>6, <1>7 DEF Consistent

LEMMA ReadValuesAreWhole ==
  ASSUME MemoryTyped, NEW id, NEW type, NEW response, ReadResult(response, id, type)
  PROVE  readValue(response, type) \in Int
<1>1. CASE response.response_code = ok
  <2>1. response.value \in Seq(Byte)
    BY <1>1, DefinitionFacts DEF ReadResult, MemoryTyped
  <2> QED
    BY <1>1, <2>1, DecodingIsWhole DEF readValue
<1>2. CASE response.response_code # ok
  BY <1>2 DEF readValue
<1> QED
  BY <1>1, <1>2

LEMMA DoubtStaysKnown ==
  ASSUME ModesFit, NEW id \in {Definitions[i].id : i \in DOMAIN Definitions} \cup {0},
         NEW response
  PROVE  DoubtAfterRead(id, response)
           \subseteq {Definitions[i].id : i \in DOMAIN Definitions} \cup {0}
BY DEF ModesFit, DoubtAfterRead

LEMMA FetchValueKeeps ==
  ASSUME Consistent, FetchValue
  PROVE  Consistent'
<1> DEFINE k == Len(rows) + 1
           known == {Definitions[i].id : i \in DOMAIN Definitions} \cup {0}
<1>1. /\ job.kind = "value" /\ memory' = memory /\ tool = "running"
      /\ FetchNext(Tail(job.ids), rows')
      /\ UNCHANGED <<context, found, by_value, hidden, timer, editor, tool, refused, resorted>>
  BY FetchValueEffect DEF Consistent, FetchValue, Doing
<1>2. PICK response :
        /\ ReadResult(response, Head(job.ids), job.meta_data.value_type)
        /\ rows' = Append(rows, [meta_data |-> job.meta_data,
                                 value |-> readValue(response, job.meta_data.value_type)])
        /\ doubt' = DoubtAfterRead(job.meta_data.id, response)
  BY FetchValueEffect DEF Consistent
<1>3. /\ view = "filling" /\ order = << >> /\ Len(rows) < Len(Definitions)
      /\ job.ids = SubSeq(Ids, Len(rows) + 1, Len(Definitions))
      /\ job.meta_data \in {MetaDataOf(k), ZeroMetaData}
  BY <1>1 DEF Consistent, JobFits, RowsFit
<1>4. Len(rows) \in Nat /\ k \in DOMAIN Definitions /\ Len(Definitions) \in Nat
  BY <1>3, RowFacts, IdsAhead DEF Consistent
<1>5. job.meta_data \in MetaDatas /\ job.meta_data.id \in known
  BY <1>3, <1>4, DefinitionFacts, ZeroMetaDataIsTyped DEF ZeroMetaData
<1> DEFINE row == [meta_data |-> job.meta_data,
                   value |-> readValue(response, job.meta_data.value_type)]
<1>6. row \in Row /\ row.meta_data = job.meta_data
  <2>1. readValue(response, job.meta_data.value_type) \in Int
    BY <1>2, ReadValuesAreWhole DEF Consistent
  <2> QED
    BY <1>5, <2>1 DEF Row
<1>7. /\ rows \in Seq(Row) /\ DOMAIN rows = 1..Len(rows)
      /\ \A r \in DOMAIN rows : rows[r].meta_data \in {MetaDataOf(r), ZeroMetaData}
  BY RowFacts DEF Consistent, RowsFit
<1> HIDE DEF row
<1>8. /\ rows' \in Seq(Row) /\ Len(rows') = k /\ DOMAIN rows' = 1..k
      /\ rows'[k] = row /\ \A r \in 1..Len(rows) : rows'[r] = rows[r]
  BY <1>2, <1>4, <1>6, <1>7 DEF row
<1>9. \A r \in DOMAIN rows' : rows'[r].meta_data \in {MetaDataOf(r), ZeroMetaData}
  <2>1. TAKE r \in DOMAIN rows'
  <2>2. r = k \/ r \in 1..Len(rows)
    BY <1>4, <1>8
  <2> QED
    BY <2>2, <1>3, <1>6, <1>7, <1>8
<1>10. RowsFit' /\ JobFits' /\ view' \in {"filling", "open"}
  <2>1. Len(rows') <= Len(Definitions)
    BY <1>3, <1>4, <1>8
  <2>2. CASE k = Len(Definitions)
    <3>1. Tail(job.ids) = << >>
      BY <2>2, <1>3, <1>4, IdsAhead
    <3> QED
      BY <1>1, <1>3, <1>8, <1>9, <2>1, <2>2, <3>1, FetchNextKeeps
  <2>3. CASE k < Len(Definitions)
    <3>1. Tail(job.ids) # << >> /\ Tail(job.ids) = SubSeq(Ids, Len(rows) + 2, Len(Definitions))
      BY <2>3, <1>3, <1>4, IdsAhead
    <3>2. Len(rows) + 2 = Len(rows') + 1 /\ Len(rows') < Len(Definitions)
      BY <2>3, <1>4, <1>8
    <3> QED
      BY <1>1, <1>3, <1>8, <1>9, <2>1, <3>1, <3>2, FetchNextKeeps
  <2> QED
    BY <2>2, <2>3, <1>3, <1>4
<1>11. MemoryTyped' /\ EditorFits'
  BY <1>1, <1>3, NoEditorWhileFilling, Unmoved DEF Consistent
<1>12. ModesFit'
  <2>1. doubt' \subseteq known
    BY <1>2, <1>5, DoubtStaysKnown DEF Consistent
  <2> QED
    BY <1>1, <1>10, <2>1 DEF Consistent, ModesFit
<1>13. UndefinedOnlyAfter' /\ TakeNeverFails'
  BY <1>1 DEF UndefinedOnlyAfter, TakeNeverFails
<1> QED
  BY <1>10, <1>11, <1>12, <1>13 DEF Consistent

\* A slot that finds no device in its place leaves behind why.
LEMMA UnusableDevice ==
  ASSUME ModesFit, ~DeviceUsable
  PROVE  ~found \/ context = "destroyed"
BY DEF ModesFit, DeviceUsable

LEMMA RefreshKeeps ==
  ASSUME Consistent, RefreshClicked \/ RefreshAllClicked \/ RefreshTimeout
  PROVE  Consistent'
<1>1. tool = "running" /\ job = Idle
  BY DEF RefreshClicked, RefreshAllClicked, RefreshTimeout, UserMayClick
<1>2. PICK only_signals \in BOOLEAN : Refresh(only_signals)
  BY DEF RefreshClicked, RefreshAllClicked, RefreshTimeout
<1>3. /\ view = "open"
      /\ UNCHANGED <<memory, context, found, rows, view, order, hidden, editor, doubt, refused,
                     resorted>>
  BY <1>2 DEF Refresh, deviceVars, tableVars, ghosts
<1>4. \/ UNCHANGED <<job, tool>>
      \/ RefreshFrom(only_signals, 1) /\ tool' = tool
      \/ ~DeviceUsable /\ tool' = "undefined" /\ job' = job
  BY <1>2 DEF Refresh, CallDevice
<1>5. MemoryTyped' /\ RowsFit' /\ EditorFits'
  BY <1>3, Unmoved DEF Consistent
<1>6. JobFits'
  <2>1. CASE RefreshFrom(only_signals, 1)
    <3>1. \/ job' = Idle
          \/ \E r \in DOMAIN rows :
               job' = [kind |-> "refresh", only_signals |-> only_signals, row |-> r]
      <4>1. 1 \in Nat \ {0}
        OBVIOUS
      <4> QED
        BY <2>1, <4>1, RefreshGoesOn DEF Consistent
    <3> QED
      BY <1>3, <3>1, Unmoved DEF JobFits
  <2>2. CASE job' = job
    BY <1>3, <2>2, Unmoved DEF Consistent
  <2> QED
    BY <1>4, <2>1, <2>2
<1>7. ModesFit' /\ TakeNeverFails'
  BY <1>1, <1>3, <1>4 DEF Consistent, ModesFit, TakeNeverFails
<1>8. UndefinedOnlyAfter'
  BY <1>1, <1>3, <1>4, UnusableDevice DEF Consistent, UndefinedOnlyAfter
<1> QED
  BY <1>5, <1>6, <1>7, <1>8 DEF Consistent

LEMMA RefreshRowKeeps ==
  ASSUME Consistent, RefreshRow
  PROVE  Consistent'
<1> DEFINE meta_data == rows[job.row].meta_data
           known == {Definitions[i].id : i \in DOMAIN Definitions} \cup {0}
<1>1. /\ job.kind = "refresh" /\ memory' = memory /\ tool = "running"
      /\ Reorder(OrdersAfterChange) /\ RefreshFrom(job.only_signals, job.row + 1)
      /\ UNCHANGED <<context, found, view, by_value, hidden, timer, editor, tool, refused>>
  BY RefreshRowEffect DEF Consistent, RefreshRow, Doing
<1>2. PICK response :
        /\ ReadResult(response, meta_data.id, meta_data.value_type)
        /\ rows' = [rows EXCEPT ![job.row].value = readValue(response, meta_data.value_type)]
        /\ doubt' = DoubtAfterRead(meta_data.id, response)
  BY RefreshRowEffect DEF Consistent
<1>3. view = "open" /\ job.row \in DOMAIN rows
  BY <1>1 DEF Consistent, JobFits
<1>4. readValue(response, meta_data.value_type) \in Int
  BY <1>2, ReadValuesAreWhole DEF Consistent
<1>5. SameMetaData
  BY <1>2, <1>3, <1>4, ValueChangeKeepsMetaData DEF Consistent
<1>6. Arranged(order') /\ resorted' \in BOOLEAN
      /\ (~resorted' => ~resorted /\ (editor # NoEditor => order' = order))
  BY <1>1, <1>3, ReorderingArranges DEF Consistent, ModesFit
<1>7. RowsFit' /\ EditorFits' /\ MemoryTyped'
  BY <1>1, <1>3, <1>5, <1>6, SameMetaDataKeepsRowsFit, SameMetaDataKeepsEditor, Unmoved
     DEF Consistent
<1>8. JobFits'
  <2>1. job.row + 1 \in Nat \ {0} /\ DOMAIN rows' = DOMAIN rows
    BY <1>3, <1>5, RowFacts DEF Consistent, SameMetaData
  <2>2. \/ job' = Idle
        \/ \E r \in DOMAIN rows :
             job' = [kind |-> "refresh", only_signals |-> job.only_signals, row |-> r]
    BY <1>1, <2>1, RefreshGoesOn DEF Consistent
  <2> QED
    BY <1>1, <1>3, <2>1, <2>2, Unmoved DEF JobFits
<1>9. ModesFit'
  <2>1. meta_data.id \in known
    BY <1>3, RowFacts, DefinitionFacts DEF Consistent, RowsFit, ZeroMetaData
  <2>2. doubt' \subseteq known
    BY <1>2, <2>1, DoubtStaysKnown DEF Consistent
  <2> QED
    BY <1>1, <1>6, <2>2 DEF Consistent, ModesFit
<1>10. UndefinedOnlyAfter' /\ TakeNeverFails'
  BY <1>1 DEF UndefinedOnlyAfter, TakeNeverFails
<1> QED
  BY <1>7, <1>8, <1>9, <1>10 DEF Consistent

LEMMA AutomaticRefreshKeeps ==
  ASSUME Consistent, AutomaticRefresh
  PROVE  Consistent'
<1>1. UNCHANGED <<memory, context, found, rows, view, order, hidden, editor, job, tool, doubt,
                  refused, resorted>>
  BY DEF AutomaticRefresh, deviceVars, ghosts
<1> QED
  BY <1>1, Unmoved DEF Consistent, ModesFit, UndefinedOnlyAfter, TakeNeverFails

LEMMA SortKeeps ==
  ASSUME Consistent, Sort
  PROVE  Consistent'
<1>1. /\ view = "open" /\ tool = "running" /\ Reorder({o \in Orders : Len(o) = Len(rows)})
      /\ UNCHANGED <<memory, context, found, rows, view, hidden, editor, job, tool, doubt, refused>>
  BY DEF Sort, deviceVars
<1>2. Arranged(order') /\ resorted' \in BOOLEAN
      /\ (~resorted' => ~resorted /\ (editor # NoEditor => order' = order))
  BY <1>1, ReorderingArranges DEF Consistent, ModesFit
<1>3. SameMetaData
  BY <1>1 DEF Consistent, RowsFit, SameMetaData
<1>4. RowsFit' /\ EditorFits' /\ MemoryTyped' /\ JobFits'
  BY <1>1, <1>2, <1>3, SameMetaDataKeepsRowsFit, SameMetaDataKeepsEditor, Unmoved DEF Consistent
<1>5. ModesFit' /\ UndefinedOnlyAfter' /\ TakeNeverFails'
  BY <1>1, <1>2 DEF Consistent, ModesFit, UndefinedOnlyAfter, TakeNeverFails
<1> QED
  BY <1>4, <1>5 DEF Consistent

LEMMA FilterAndCancelKeep ==
  ASSUME Consistent, Filter \/ CancelEdit
  PROVE  Consistent'
<1>1. /\ UNCHANGED <<memory, context, found, rows, view, order, job, tool, doubt, refused,
                     resorted>>
      /\ editor' = NoEditor
  BY DEF Filter, CancelEdit, UserMayClick, deviceVars, tableVars, ghosts
<1>2. MemoryTyped' /\ RowsFit' /\ EditorFits' /\ JobFits'
  BY <1>1, Unmoved DEF Consistent
<1> QED
  BY <1>1, <1>2 DEF Consistent, ModesFit, UndefinedOnlyAfter, TakeNeverFails

LEMMA DelegateRowFacts ==
  ASSUME RowsFit, view = "open", NEW r \in DOMAIN rows, r \notin hidden
  PROVE  /\ DelegateRow(r).meta_data.value_type \in ParameterValueType
         /\ DelegateRow(r).value \in Int
         /\ setEditorData(r) \in Int
<1>1. ProxyRow(r) \in DOMAIN rows
  BY ProxyRowIsARow
<1>2. DelegateRow(r).meta_data.value_type \in ParameterValueType /\ DelegateRow(r).value \in Int
  BY <1>1, RowFacts DEF DelegateRow
<1>3. \A n \in Int : Convert(boolean, n) \in Int
  BY DEF Convert
<1> QED
  BY <1>2, <1>3 DEF setEditorData

LEMMA StartEditKeeps ==
  ASSUME Consistent, StartEdit
  PROVE  Consistent'
<1>1. /\ view = "open" /\ tool = "running" /\ resorted' = FALSE
      /\ UNCHANGED <<memory, context, found, rows, view, order, hidden, job, tool, doubt, refused>>
  BY DEF StartEdit, UserMayClick, deviceVars, tableVars
<1>2. PICK r \in DOMAIN rows :
        /\ Shown(r) /\ parameterIsEditable(rows[r])
        /\ editor' = [row |-> r, kind |-> createEditor(r), shown |-> setEditorData(r)]
  BY DEF StartEdit
<1>3. r \notin hidden /\ setEditorData(r) \in Int
  BY <1>1, <1>2, DelegateRowFacts DEF Consistent, Shown
<1>4. editor'.row = r /\ editor'.kind = createEditor(r) /\ editor'.shown = setEditorData(r)
  BY <1>2
<1>5. createEditor(r)' = createEditor(r)
  BY <1>1 DEF createEditor, DelegateRow, ProxyRow, Position
<1>6. EditorFits'
  <2>1. createEditor(editor.row)' = createEditor(r)
    BY <1>1, <1>4 DEF createEditor, DelegateRow, ProxyRow, Position
  <2>2. Editable(editor.row)'
    BY <1>1, <1>2, <1>4 DEF Editable, parameterIsEditable
  <2> QED
    BY <1>1, <1>3, <1>4, <2>1, <2>2 DEF EditorFits
<1>7. MemoryTyped' /\ RowsFit' /\ JobFits'
  BY <1>1, Unmoved DEF Consistent
<1> QED
  BY <1>1, <1>6, <1>7 DEF Consistent, ModesFit, UndefinedOnlyAfter, TakeNeverFails

LEMMA HighestIsWhole ==
  ASSUME NEW type \in ParameterValueType
  PROVE  Highest(type) \in Int
<1> DEFINE top == [i \in 1..SizeOf(type) |->
                     IF i = SizeOf(type) /\ type \in SignedType THEN UINT8_MAX \div 2
                     ELSE UINT8_MAX]
<1>1. UINT8_MAX \in Byte /\ UINT8_MAX \div 2 \in Byte
  BY ByteAssumption DEF Byte
<1>2. SizeOf(type) \in Nat
  BY SizesAreNatural
<1>3. top \in Seq(Byte)
  BY <1>1, <1>2
<1> HIDE DEF top
<1>4. Decode(type, top) \in Int
  BY <1>3, DecodingIsWhole
<1> QED
  BY <1>4 DEF Highest, top

LEMMA WrappingIsWhole ==
  ASSUME NEW type \in ParameterValueType, NEW n \in Int
  PROVE  /\ Wrapped(type, n) \in Int /\ Convert(type, n) \in Int
         /\ Casts(type, n) \subseteq Int
<1>1. Wrapped(type, n) \in Int
  BY EncodingIsBytes, DecodingIsWhole DEF Wrapped
<1>2. Convert(type, n) \in Int
  BY <1>1 DEF Convert
<1>3. Casts(type, n) \subseteq Int
  BY <1>1, HighestIsWhole DEF Casts
<1> QED
  BY <1>1, <1>2, <1>3

LEMMA CommitEditEffect ==
  ASSUME Consistent, CommitEdit
  PROVE  /\ editor # NoEditor /\ editor' = NoEditor /\ view = "open" /\ tool = "running"
         /\ Editable(editor.row) /\ job = Idle
         /\ UNCHANGED <<memory, context, found, view, by_value, hidden, doubt, refused>>
         /\ \/ /\ resorted /\ tool' = "undefined"
               /\ UNCHANGED <<rows, order, resorted, job>>
            \/ \E value \in Int :
                 /\ rows' = [rows EXCEPT ![editor.row].value = value]
                 /\ Reorder(OrdersAfterChange)
                 /\ \/ /\ job' = [kind |-> "write", id |-> rows[editor.row].meta_data.id,
                                  value |-> value]
                       /\ tool' = tool
                    \/ ~DeviceUsable /\ tool' = "undefined" /\ job' = job
<1> DEFINE r    == editor.row
           type == DelegateRow(r).meta_data.value_type
<1>1. /\ editor # NoEditor /\ editor' = NoEditor /\ tool = "running" /\ job = Idle
      /\ UNCHANGED <<memory, context, found, view, by_value, hidden, doubt, refused>>
  BY DEF CommitEdit, deviceVars
<1>2. /\ view = "open" /\ Editable(r) /\ r \notin hidden /\ editor.shown \in Int
      /\ (resorted \/ editor.kind = createEditor(r))
  BY <1>1 DEF Consistent, EditorFits
<1>3. type \in ParameterValueType
  BY <1>2, DelegateRowFacts DEF Consistent, Editable
<1>4. Entered \subseteq Int
  <2>1. TypedNumbers \subseteq Int /\ {0, 1} \subseteq Int
    BY InputsAssumption
  <2>2. Entered \subseteq {editor.shown} \cup {0, 1} \cup TypedNumbers
    BY DEF Entered
  <2> QED
    BY <1>2, <2>1, <2>2
<1>5. CASE editor.kind # EditorKind(type)
  <2>1. tool' = "undefined" /\ UNCHANGED <<rows, order, resorted, job>>
    BY <1>5 DEF CommitEdit
  <2>2. resorted
    BY <1>2, <1>5 DEF createEditor
  <2> QED
    BY <1>1, <1>2, <2>1, <2>2
<1>6. CASE editor.kind = EditorKind(type)
  <2>1. PICK n \in Entered : \E value \in Casts(type, n) : setData(r, value)
    BY <1>6 DEF CommitEdit
  <2>2. PICK value \in Casts(type, n) : setData(r, value)
    BY <2>1
  <2>3. value \in Int
    BY <1>3, <1>4, <2>2, WrappingIsWhole
  <2>4. /\ rows' = [rows EXCEPT ![r].value = value]
        /\ Reorder(OrdersAfterChange)
        /\ \/ /\ job' = [kind |-> "write", id |-> rows[r].meta_data.id, value |-> value]
              /\ tool' = tool
           \/ ~DeviceUsable /\ tool' = "undefined" /\ job' = job
    BY <2>2 DEF setData, CallDevice
  <2> QED
    BY <1>1, <1>2, <2>3, <2>4
<1> QED
  BY <1>5, <1>6

LEMMA CommitEditKeeps ==
  ASSUME Consistent, CommitEdit
  PROVE  Consistent'
<1>1. /\ editor # NoEditor /\ editor' = NoEditor /\ view = "open" /\ tool = "running"
      /\ Editable(editor.row) /\ job = Idle
      /\ UNCHANGED <<memory, context, found, view, by_value, hidden, doubt, refused>>
  BY CommitEditEffect
<1>2. EditorFits' /\ MemoryTyped'
  BY <1>1, Unmoved DEF Consistent
<1>3. CASE /\ resorted /\ tool' = "undefined"
           /\ UNCHANGED <<rows, order, resorted, job>>
  <2>1. RowsFit' /\ JobFits'
    BY <1>1, <1>3, Unmoved DEF Consistent
  <2> QED
    BY <1>1, <1>2, <1>3, <2>1 DEF Consistent, ModesFit, UndefinedOnlyAfter, TakeNeverFails
<1>4. ASSUME NEW value \in Int,
             rows' = [rows EXCEPT ![editor.row].value = value],
             Reorder(OrdersAfterChange),
             \/ /\ job' = [kind |-> "write", id |-> rows[editor.row].meta_data.id,
                           value |-> value]
                /\ tool' = tool
             \/ ~DeviceUsable /\ tool' = "undefined" /\ job' = job
      PROVE  Consistent'
  <2>1. editor.row \in DOMAIN rows
    BY <1>1 DEF Editable
  <2>2. SameMetaData /\ rows'[editor.row].value = value
    BY <1>4, <2>1, ValueChangeKeepsMetaData DEF Consistent
  <2>3. Arranged(order') /\ resorted' \in BOOLEAN
    BY <1>1, <1>4, ReorderingArranges DEF Consistent, ModesFit
  <2>4. RowsFit'
    BY <1>1, <2>2, <2>3, SameMetaDataKeepsRowsFit DEF Consistent
  <2>5. DOMAIN rows' = DOMAIN rows /\ rows'[editor.row].meta_data = rows[editor.row].meta_data
    BY <2>1, <2>2, RowFacts DEF Consistent, SameMetaData
  <2>6. JobFits'
    <3>1. CASE job' = [kind |-> "write", id |-> rows[editor.row].meta_data.id, value |-> value]
      <4>1. /\ job'.kind = "write" /\ job'.id = rows'[editor.row].meta_data.id
            /\ job'.value = rows'[editor.row].value /\ editor.row \in DOMAIN rows'
        BY <2>1, <2>2, <2>5, <3>1
      <4>2. rows'[editor.row].meta_data.read_write_access = read_write
        BY <1>1, <2>5 DEF Editable, parameterIsEditable
      <4>3. \E r \in DOMAIN rows' : /\ Editable(r)'
                                    /\ job'.id = rows'[r].meta_data.id
                                    /\ job'.value = rows'[r].value
        BY <4>1, <4>2 DEF Editable, parameterIsEditable
      <4> QED
        BY <1>1, <4>1, <4>3 DEF JobFits
    <3>2. CASE job' = job
      BY <1>1, <3>2, Unmoved
    <3> QED
      BY <1>4, <3>1, <3>2
  <2>7. ModesFit' /\ TakeNeverFails'
    BY <1>1, <1>4, <2>3 DEF Consistent, ModesFit, TakeNeverFails
  <2>8. UndefinedOnlyAfter'
    BY <1>1, <1>4, UnusableDevice DEF Consistent, UndefinedOnlyAfter
  <2> QED
    BY <1>2, <2>4, <2>6, <2>7, <2>8 DEF Consistent
<1> QED
  BY <1>3, <1>4, CommitEditEffect

\* The row a write is about, and the one its type is taken from.
LEMMA WriteJobFacts ==
  ASSUME RowsFit, JobFits, job.kind = "write"
  PROVE  /\ job.id \in Byte /\ job.value \in Int
         /\ TypeOfId(job.id) \in ParameterValueType
         /\ RowOfId(job.id) \in DOMAIN rows /\ rows[RowOfId(job.id)].meta_data.id = job.id
<1>1. PICK r \in DOMAIN rows : job.id = rows[r].meta_data.id /\ job.value = rows[r].value
  BY DEF JobFits
<1> DEFINE T == {q \in DOMAIN rows : rows[q].meta_data.id = job.id}
<1>2. T \subseteq Nat /\ T # {}
  BY <1>1, RowFacts
<1>3. PICK q \in T : \A p \in T : q <= p
  BY <1>2, LeastNatural
<1>4. \E p \in DOMAIN rows :
        /\ rows[p].meta_data.id = job.id
        /\ \A o \in DOMAIN rows : rows[o].meta_data.id = job.id => p <= o
  BY <1>3
<1>5. RowOfId(job.id) \in DOMAIN rows /\ rows[RowOfId(job.id)].meta_data.id = job.id
  BY <1>4 DEF RowOfId
<1> QED
  BY <1>1, <1>5, RowFacts DEF TypeOfId

LEMMA TypesAreBytes == ParameterValueType \subseteq Byte
BY ByteAssumption, SMTT(30) DEF ParameterValueType, Byte, uint8, none

LEMMA WriteValueKeeps ==
  ASSUME Consistent, WriteValue
  PROVE  Consistent'
<1> DEFINE known   == {Definitions[i].id : i \in DOMAIN Definitions} \cup {0}
           type    == TypeOfId(job.id)
           bytes   == Encode(type, Convert(type, job.value))
           data    == SerializeWriteRequest(PutValue(job.id, type, Convert(type, job.value)))
           written == AnswerWrite(Database, memory, data).memory
<1>1. /\ job.kind = "write" /\ tool = "running" /\ job' = Idle
      /\ UNCHANGED <<context, found, tableVars, editor, tool, resorted>>
  BY DEF WriteValue, Exchange, Undisturbed, Disturbed, Doing
<1>2. job.id \in Byte /\ job.value \in Int /\ type \in ParameterValueType
  BY <1>1, WriteJobFacts DEF Consistent
<1>3. data \in Seq(Byte)
  <2>1. bytes \in Seq(Byte)
    BY <1>2, WrappingIsWhole, EncodingIsBytes
  <2>2. data = <<job.id, type>> \o bytes
    BY DEF SerializeWriteRequest, PutValue
  <2> HIDE DEF data, bytes
  <2>3. <<job.id, type>> \in Seq(Byte)
    BY <1>2, TypesAreBytes
  <2> QED
    BY <2>1, <2>2, <2>3
<1>4. \A answer \in Answers(write_parameter_value, data) : answer.memory = written
  BY DEF Answers, DeviceAnswer, ping, read_parameter_value, write_parameter_value,
     get_parameter_metadata, get_all_registered_parameter_ids
<1>5. /\ memory' \in {memory, written}
      /\ \E response : doubt' = DoubtAfterRead(job.id, response)
      /\ refused' \in BOOLEAN
  <2>1. refused \in BOOLEAN
    BY DEF Consistent, ModesFit
  <2> HIDE DEF written
  <2> QED
    BY <1>4, <2>1 DEF WriteValue, Exchange, Undisturbed, Disturbed
<1>6. MemoryTyped'
  <2>1. \/ written = memory
        \/ \E i \in DOMAIN Definitions, new \in Seq(Byte) :
             /\ Len(new) = SizeOf(Definitions[i].value_type) /\ written = Stored(i, new)
    BY <1>3, AnyWriteAnswers
  <2> HIDE DEF written
  <2> QED
    BY <1>5, <2>1, StoringKeepsTypes, Unmoved DEF Consistent
<1>7. RowsFit' /\ JobFits' /\ EditorFits'
  BY <1>1, Unmoved DEF Consistent, tableVars
<1>8. ModesFit'
  <2>1. job.id \in known
    <3>1. PICK r \in DOMAIN rows : job.id = rows[r].meta_data.id
      BY <1>1 DEF Consistent, JobFits
    <3> QED
      BY <3>1, RowFacts, DefinitionFacts DEF Consistent, RowsFit, ZeroMetaData
  <2>2. doubt' \subseteq known
    BY <1>5, <2>1, DoubtStaysKnown DEF Consistent
  <2> QED
    BY <1>1, <1>5, <2>2 DEF Consistent, ModesFit, tableVars
<1>9. UndefinedOnlyAfter' /\ TakeNeverFails'
  BY <1>1 DEF UndefinedOnlyAfter, TakeNeverFails
<1> QED
  BY <1>6, <1>7, <1>8, <1>9 DEF Consistent

LEMMA PortFailsKeeps ==
  ASSUME Consistent, PortFails
  PROVE  Consistent'
<1>1. /\ tool' = "terminated" /\ job' = Idle /\ editor' = NoEditor
      /\ UNCHANGED <<memory, context, found, rows, view, order, hidden, doubt, refused, resorted>>
  BY DEF PortFails, ToolEnds, deviceVars, tableVars, ghosts
<1>2. MemoryTyped' /\ RowsFit' /\ EditorFits' /\ JobFits'
  BY <1>1, Unmoved DEF Consistent
<1> QED
  BY <1>1, <1>2 DEF Consistent, ModesFit, UndefinedOnlyAfter, TakeNeverFails

LEMMA StutteringKeeps ==
  ASSUME Consistent, UNCHANGED vars
  PROVE  Consistent'
BY Unmoved DEF Consistent, vars, ModesFit, UndefinedOnlyAfter, TakeNeverFails

LEMMA InitIsConsistent == Init => Consistent
<1> SUFFICES ASSUME Init PROVE Consistent
  OBVIOUS
<1>1. MemoryTyped
  BY InitialMemoryTyped DEF Init, MemoryTyped
<1>2. RowsFit
  <2>1. << >> \in Seq(Row) /\ Len(<< >>) = 0 /\ DOMAIN << >> = {} /\ Len(Definitions) \in Nat
    BY DefinitionsAreTyped
  <2> QED
    BY <2>1 DEF Init, RowsFit
<1>3. ModesFit /\ JobFits /\ EditorFits /\ UndefinedOnlyAfter /\ TakeNeverFails
  BY DEF Init, ModesFit, JobFits, EditorFits, UndefinedOnlyAfter, TakeNeverFails, Idle
<1> QED
  BY <1>1, <1>2, <1>3 DEF Consistent

\* The tool, its table and the device's memory keep fitting together.
THEOREM ToolStaysConsistent == Spec => []Consistent
<1>1. Consistent /\ [Next]_vars => Consistent'
  BY DeviceStepsKeep, WindowStepsKeep, OpenViewKeeps, FindDeviceKeeps, FetchIdsKeeps,
     FetchMetaDataKeeps, FetchValueKeeps, RefreshKeeps, RefreshRowKeeps, AutomaticRefreshKeeps,
     SortKeeps, FilterAndCancelKeep, StartEditKeeps, CommitEditKeeps, WriteValueKeeps,
     PortFailsKeeps, StutteringKeeps DEF Next, ToolStep
<1> QED
  BY <1>1, InitIsConsistent, PTL DEF Spec

\* How many ids are ahead of a fetch.
LEMMA IdsLeft ==
  ASSUME Consistent, job.kind \in {"metadata", "value"}
  PROVE  Len(job.ids) \in Nat \ {0} /\ Len(Tail(job.ids)) = Len(job.ids) - 1
<1> DEFINE n == Len(rows)
           L == Len(Definitions)
<1>1. n \in Nat /\ L \in Nat /\ n < L /\ job.ids = SubSeq(Ids, n + 1, L)
  BY RowFacts DEF Consistent, JobFits
<1>2. Ids \in Seq(Byte) /\ Len(Ids) = L
  BY IdsAreTyped
<1> HIDE DEF n, L
<1>3. job.ids \in Seq(Byte) /\ Len(job.ids) = L - n
  BY <1>1, <1>2
<1>4. Len(job.ids) \in Nat \ {0}
  BY <1>1, <1>3
<1>5. ASSUME NEW s \in Seq(Byte), s # << >>
      PROVE  Len(Tail(s)) = Len(s) - 1
  BY <1>5
<1>6. job.ids # << >>
  BY <1>4
<1> QED
  BY <1>3, <1>4, <1>5, <1>6

\* What is left once the next id is fetched, or there is none.
LEMMA FetchNextLeaves ==
  ASSUME NEW ids, NEW filled, FetchNext(ids, filled)
  PROVE  ExchangesLeft' = IF ids = << >> THEN 0 ELSE 2 * Len(ids)
BY DEF FetchNext, ExchangesLeft, Idle

LEMMA FetchShortens ==
  ASSUME Consistent, FetchIds \/ FetchMetaData \/ FetchValue
  PROVE  ExchangesLeft' \in 0..ExchangesLeft - 1
<1>1. CASE FetchIds
  <2>1. ExchangesLeft = 2 * Len(Definitions) + 1 /\ Len(Definitions) \in Nat
    BY <1>1, DefinitionsAreTyped DEF FetchIds, Doing, ExchangesLeft
  <2>2. PICK ids \in {Ids, << >>} : FetchNext(ids, rows)
    BY <1>1, FetchIdsEffect
  <2>3. ExchangesLeft' = 0 \/ ExchangesLeft' = 2 * Len(Definitions)
    BY <2>2, FetchNextLeaves, IdsAreTyped
  <2> QED
    BY <2>1, <2>3
<1>2. CASE FetchMetaData
  <2>1. job.kind = "metadata" /\ ExchangesLeft = 2 * Len(job.ids)
    BY <1>2 DEF FetchMetaData, Doing, ExchangesLeft
  <2>2. \E meta_data : job' = [kind |-> "value", ids |-> job.ids, meta_data |-> meta_data]
    BY <1>2 DEF FetchMetaData, Exchange, Undisturbed, Disturbed
  <2>3. ExchangesLeft' = 2 * Len(job.ids) - 1
    BY <2>2 DEF ExchangesLeft
  <2> QED
    BY <2>1, <2>3, IdsLeft
<1>3. CASE FetchValue
  <2>1. job.kind = "value" /\ FetchNext(Tail(job.ids), rows')
    BY <1>3, FetchValueEffect DEF Consistent
  <2>2. ExchangesLeft = 2 * Len(job.ids) - 1
    BY <2>1 DEF ExchangesLeft
  <2>3. ExchangesLeft' = 0 \/ ExchangesLeft' = 2 * Len(Tail(job.ids))
    BY <2>1, FetchNextLeaves
  <2> QED
    BY <2>1, <2>2, <2>3, IdsLeft
<1> QED
  BY <1>1, <1>2, <1>3

LEMMA RefreshShortens ==
  ASSUME Consistent, RefreshRow
  PROVE  ExchangesLeft' \in 0..ExchangesLeft - 1
<1>1. /\ job.kind = "refresh" /\ RefreshFrom(job.only_signals, job.row + 1)
      /\ \E value : rows' = [rows EXCEPT ![job.row].value = value]
  BY RefreshRowEffect DEF Consistent
<1>2. /\ job.row \in 1..Len(rows) /\ Len(rows) \in Nat /\ rows \in Seq(Row)
      /\ DOMAIN rows = 1..Len(rows)
  BY <1>1, RowFacts DEF Consistent, JobFits, RowsFit
<1>3. ExchangesLeft = Len(rows) - job.row + 1
  BY <1>1 DEF ExchangesLeft
<1>4. Len(rows') = Len(rows)
  BY <1>1, <1>2
<1>5. \/ job' = Idle
      \/ \E r \in DOMAIN rows :
           /\ job' = [kind |-> "refresh", only_signals |-> job.only_signals, row |-> r]
           /\ job.row + 1 <= r
  BY <1>1, <1>2, RefreshGoesOn DEF Consistent
<1>6. CASE job' = Idle
  <2>1. ExchangesLeft' = 0
    BY <1>6 DEF ExchangesLeft, Idle
  <2> QED
    BY <2>1, <1>2, <1>3
<1>7. CASE \E r \in DOMAIN rows :
             /\ job' = [kind |-> "refresh", only_signals |-> job.only_signals, row |-> r]
             /\ job.row + 1 <= r
  <2>1. PICK r \in DOMAIN rows :
          /\ job' = [kind |-> "refresh", only_signals |-> job.only_signals, row |-> r]
          /\ job.row + 1 <= r
    BY <1>7
  <2>2. ExchangesLeft' = Len(rows) - r + 1
    BY <1>4, <2>1 DEF ExchangesLeft
  <2> QED
    BY <2>1, <2>2, <1>2, <1>3
<1> QED
  BY <1>5, <1>6, <1>7

\* The steps of a blocked thread are its exchanges, and nothing else takes the
\* job away but a failure that ends the tool.
LEMMA BlockedSteps ==
  ASSUME Next, Blocked, job' # job, tool' = "running"
  PROVE  ToolStep
BY DEF Next, Blocked, MainLoop, Restart, OtherToolWrites, toolVars, RefreshDevices, PortChosen,
   NoPortChosen, OpenView, RefreshClicked, RefreshAllClicked, RefreshTimeout, AutomaticRefresh,
   Sort, Filter, StartEdit, CancelEdit, CommitEdit, UserMayClick, PortFails, ToolEnds

\* A slot that talks to the device has a number of exchanges ahead of it that each
\* of them brings down, at most two for each definition and one.  Each of them returns, which
\* is CallReturns of MasterHandler, so the slot does.
THEOREM SlotsComeToAnEnd ==
  Spec => EveryExchangeCounts /\ [](ExchangesLeft \in 0..2 * Len(Definitions) + 1)
<1>1. Consistent /\ [Next]_vars =>
        [Blocked /\ job' # job =>
           tool' # "running" \/ ExchangesLeft' \in 0..ExchangesLeft - 1]_vars
  <2> SUFFICES ASSUME Consistent, Next, Blocked, job' # job, tool' = "running"
               PROVE  ExchangesLeft' \in 0..ExchangesLeft - 1
    OBVIOUS
  <2>1. ToolStep
    BY BlockedSteps
  <2>2. CASE FetchIds \/ FetchMetaData \/ FetchValue
    BY <2>2, FetchShortens
  <2>3. CASE RefreshRow
    BY <2>3, RefreshShortens
  <2>4. CASE FindDevice \/ WriteValue
    <3>1. job' = Idle
      BY <2>4, FindDeviceEffect DEF WriteValue, Exchange, Undisturbed, Disturbed
    <3>2. ExchangesLeft = 1 /\ ExchangesLeft' = 0
      BY <2>4, <3>1 DEF FindDevice, WriteValue, Doing, ExchangesLeft, Idle
    <3> QED
      BY <3>2
  <2> QED
    BY <2>1, <2>2, <2>3, <2>4 DEF ToolStep
<1>2. Consistent => ExchangesLeft \in 0..2 * Len(Definitions) + 1
  <2> SUFFICES ASSUME Consistent PROVE ExchangesLeft \in 0..2 * Len(Definitions) + 1
    OBVIOUS
  <2>1. Len(Definitions) \in Nat /\ Len(rows) \in Nat /\ Len(rows) <= Len(Definitions)
    BY RowFacts DEF Consistent, RowsFit
  <2>2. CASE job.kind \in {"idle", "ping", "write", "ids"}
    BY <2>1, <2>2 DEF ExchangesLeft
  <2>3. CASE job.kind \in {"metadata", "value"}
    <3>1. Len(job.ids) = Len(Definitions) - Len(rows) /\ Len(job.ids) \in Nat \ {0}
      <4>1. /\ job.ids = SubSeq(Ids, Len(rows) + 1, Len(Definitions))
            /\ Len(rows) < Len(Definitions)
        BY <2>3 DEF Consistent, JobFits
      <4> QED
        BY <2>1, <2>3, <4>1, IdsAreTyped, IdsLeft
    <3>2. ExchangesLeft = 2 * Len(job.ids) \/ ExchangesLeft = 2 * Len(job.ids) - 1
      BY <2>3 DEF ExchangesLeft
    <3> QED
      BY <2>1, <3>1, <3>2
  <2>4. CASE job.kind = "refresh"
    <3>1. job.row \in 1..Len(rows) /\ ExchangesLeft = Len(rows) - job.row + 1
      BY <2>4, RowFacts DEF Consistent, JobFits, ExchangesLeft
    <3> QED
      BY <2>1, <3>1
  <2> QED
    BY <2>2, <2>3, <2>4 DEF Consistent, JobFits
<1> QED
  BY <1>1, <1>2, ToolStaysConsistent, PTL DEF Spec, EveryExchangeCounts

\* The tool runs into undefined behaviour only through a device or a context that was
\* taken away, or rows that moved under an open editor.
THEOREM UndefinedHasACause == Spec => []UndefinedOnlyAfter
BY ToolStaysConsistent, PTL DEF Consistent

\* The table has a row for each registered parameter in the order of registration,
\* with its metadata or none, or it is empty, whatever exchange fails while it fills.
THEOREM TableIsComplete == Spec => []TableIsCompleteOrEmpty
<1>1. Consistent => TableIsCompleteOrEmpty
  <2> SUFFICES ASSUME RowsFit PROVE TableIsCompleteOrEmpty
    BY DEF Consistent
  <2>1. rows # << >> => Len(rows) # 0
    BY EmptySeq DEF RowsFit
  <2> QED
    BY <2>1 DEF RowsFit, TableIsCompleteOrEmpty
<1> QED
  BY <1>1, ToolStaysConsistent, PTL

\* The parts of the tool are what they can be, and no variable of the device changes
\* its size.
THEOREM TypesAreKept == Spec => []TypeOK
<1>1. Consistent => TypeOK
  <2> SUFFICES ASSUME MemoryTyped, ModesFit, RowsFit PROVE TypeOK
    BY DEF Consistent
  <2>1. \A r \in DOMAIN rows : rows[r].value \in Int
    BY RowFacts
  <2>2. Len(order) \in {0, Len(rows)}
    BY DEF RowsFit, ModesFit, Arranged
  <2> QED
    BY <2>1, <2>2 DEF MemoryTyped, ModesFit, TypeOK
<1> QED
  BY <1>1, ToolStaysConsistent, PTL

-----------------------------------------------------------------------------
(* A write goes to the device with an id and a type the device knows.      *)

\* With no definition of id 0, a row with a definition's id is that definition's.
LEMMA RowsOfIds ==
  ASSUME IdZeroIsFree(Definitions), NEW k \in DOMAIN Definitions, NEW i \in DOMAIN Definitions,
         NEW meta_data \in {MetaDataOf(k), ZeroMetaData}, meta_data.id = Definitions[i].id
  PROVE  meta_data = MetaDataOf(k) /\ k = i
<1>1. meta_data # ZeroMetaData
  BY DEF IdZeroIsFree, ZeroMetaData
<1>2. meta_data = MetaDataOf(k) /\ MetaDataOf(k).id = Definitions[k].id
  BY <1>1, DefinitionFacts
<1> QED
  BY <1>2, DefinitionsAssumption

\* A write is about the row of a writable definition, and goes out as its type.
LEMMA WritesFitTheDevice ==
  ASSUME IdZeroIsFree(Definitions), Consistent, job.kind = "write"
  PROVE  \E r \in DOMAIN rows :
           /\ r \in DOMAIN Definitions /\ valueIsWritable(Definitions[r])
           /\ rows[r].meta_data = MetaDataOf(r)
           /\ job.id = Definitions[r].id /\ TypeOfId(job.id) = Definitions[r].value_type
           /\ job.value = rows[r].value /\ job.value \in Int
<1>1. PICK r \in DOMAIN rows :
        Editable(r) /\ job.id = rows[r].meta_data.id /\ job.value = rows[r].value
  BY DEF Consistent, JobFits
<1>2. /\ \A q \in DOMAIN rows : /\ q \in DOMAIN Definitions
                               /\ rows[q].meta_data \in {MetaDataOf(q), ZeroMetaData}
      /\ job.value \in Int
  BY <1>1, RowFacts DEF Consistent, RowsFit
<1>3. rows[r].meta_data = MetaDataOf(r)
  <2>1. rows[r].meta_data.read_write_access = read_write
    BY <1>1 DEF Editable, parameterIsEditable
  <2>2. ZeroMetaData.read_write_access # read_write
    BY DEF ZeroMetaData, read_only, read_write
  <2> QED
    BY <1>2, <2>1, <2>2
<1>4. r \in DOMAIN Definitions /\ valueIsWritable(Definitions[r]) /\ job.id = Definitions[r].id
  BY <1>1, <1>2, <1>3, DefinitionFacts DEF Editable, parameterIsEditable, valueIsWritable
<1> DEFINE q == RowOfId(job.id)
<1>5. q \in DOMAIN rows /\ rows[q].meta_data.id = job.id
  BY WriteJobFacts DEF Consistent
<1>6. rows[q].meta_data = MetaDataOf(q) /\ q = r
  BY <1>2, <1>4, <1>5, RowsOfIds
<1>7. TypeOfId(job.id) = Definitions[r].value_type
  BY <1>4, <1>6, DefinitionFacts DEF TypeOfId
<1> QED
  BY <1>1, <1>2, <1>3, <1>4, <1>7

\* A write, and what the device makes of it.
LEMMA WriteValueEffect ==
  ASSUME IdZeroIsFree(Definitions), Consistent, WriteValue
  PROVE  \E r \in DOMAIN rows :
           /\ r \in DOMAIN Definitions /\ valueIsWritable(Definitions[r])
           /\ rows[r].meta_data = MetaDataOf(r)
           /\ job.id = Definitions[r].id
           /\ LET type    == Definitions[r].value_type
                  written == Stored(r, Encode(type, Convert(type, rows[r].value)))
              IN  \/ memory' = written /\ doubt' = doubt \ {job.id}
                  \/ memory' \in {memory, written} /\ doubt' = doubt \cup {job.id}
           /\ refused' = refused
<1>1. job.kind = "write"
  BY DEF WriteValue, Doing
<1>2. PICK r \in DOMAIN rows :
        /\ r \in DOMAIN Definitions /\ valueIsWritable(Definitions[r])
        /\ rows[r].meta_data = MetaDataOf(r)
        /\ job.id = Definitions[r].id /\ TypeOfId(job.id) = Definitions[r].value_type
        /\ job.value = rows[r].value /\ job.value \in Int
  BY <1>1, WritesFitTheDevice
<1> DEFINE type    == Definitions[r].value_type
           number  == Convert(type, job.value)
           written == Stored(r, Encode(type, number))
           data    == SerializeWriteRequest(PutValue(job.id, type, number))
           Outcome(response) ==
             /\ doubt' = DoubtAfterRead(job.id, response)
             /\ refused' = (refused \/ response.response_code \notin {ok, timed_out, corrupted})
<1>3. number \in Int /\ refused \in BOOLEAN
  BY <1>2, DefinitionFacts, WrappingIsWhole DEF Consistent, ModesFit
<1>4. \A answer \in Answers(write_parameter_value, data) :
        /\ answer.memory = written
        /\ CommandResponse(write_parameter_value, answer).response_code = ok
  <2> HIDE DEF number
  <2> QED
    BY <1>2, <1>3, WriteAnswers
<1>5. \/ \E answer \in Answers(write_parameter_value, data) :
           memory' = answer.memory /\ Outcome(CommandResponse(write_parameter_value, answer))
      \/ /\ memory' \in {memory} \cup {answer.memory :
                                         answer \in Answers(write_parameter_value, data)}
         /\ \E code \in {timed_out, corrupted} : Outcome(FailedResponse(code))
  BY <1>2 DEF WriteValue, Exchange, Undisturbed, Disturbed
<1>6. \A response : response.response_code = ok =>
        (Outcome(response) => doubt' = doubt \ {job.id} /\ refused' = refused)
  BY <1>3 DEF DoubtAfterRead
<1>7. \A code \in {timed_out, corrupted} :
        Outcome(FailedResponse(code)) => doubt' = doubt \cup {job.id} /\ refused' = refused
  BY <1>3, FailuresGiveNothing DEF DoubtAfterRead
<1> HIDE DEF Outcome, data, written
<1>8. \/ memory' = written /\ doubt' = doubt \ {job.id} /\ refused' = refused
      \/ memory' \in {memory, written} /\ doubt' = doubt \cup {job.id} /\ refused' = refused
  BY <1>4, <1>5, <1>6, <1>7
<1> QED
  BY <1>2, <1>8 DEF written

\* No other step has anything turned down.
LEMMA OnlyWritesAreRefused ==
  ASSUME Consistent, [Next]_vars, ~WriteValue
  PROVE  refused' = refused
<1>1. CASE MainLoop \/ Restart \/ OtherToolWrites
  BY <1>1 DEF MainLoop, Restart, OtherToolWrites, toolVars
<1>2. CASE RefreshDevices \/ PortChosen \/ NoPortChosen \/ OpenView \/ AutomaticRefresh
           \/ Filter \/ CancelEdit
  BY <1>2 DEF RefreshDevices, PortChosen, NoPortChosen, OpenView, AutomaticRefresh, Filter,
     CancelEdit, ghosts
<1>3. CASE RefreshClicked \/ RefreshAllClicked \/ RefreshTimeout
  BY <1>3 DEF RefreshClicked, RefreshAllClicked, RefreshTimeout, Refresh, ghosts
<1>4. CASE Sort \/ StartEdit \/ CommitEdit
  BY <1>4 DEF Sort, StartEdit, CommitEdit
<1>5. CASE FindDevice \/ FetchIds \/ FetchMetaData \/ FetchValue \/ RefreshRow
  BY <1>5 DEF FindDevice, FetchIds, FetchMetaData, FetchValue, RefreshRow, ghosts
<1>6. CASE PortFails
  BY <1>6 DEF PortFails, ToolEnds, ghosts
<1>7. CASE UNCHANGED vars
  BY <1>7 DEF vars
<1> QED
  BY <1>1, <1>2, <1>3, <1>4, <1>5, <1>6, <1>7 DEF Next, ToolStep

\* What the table lets the user edit the device writes: the id and the type are those
\* of a writable definition, even when the metadata of other rows could not be fetched,
\* whatever rows moved under the editor and whatever the user typed.
THEOREM EditsAreNeverRefused ==
  ASSUME IdZeroIsFree(Definitions)
  PROVE  Spec => []EditsAreAccepted
<1>1. Init => EditsAreAccepted
  BY DEF Init, EditsAreAccepted
<1>2. Consistent /\ EditsAreAccepted /\ [Next]_vars => EditsAreAccepted'
  BY OnlyWritesAreRefused, WriteValueEffect DEF EditsAreAccepted
<1> QED
  BY <1>1, <1>2, ToolStaysConsistent, PTL DEF Spec

\* Once converted, a number is itself to the cell and to the device.
LEMMA ReadBytesConvert ==
  ASSUME NEW type \in ParameterValueType, NEW bytes \in Seq(Byte), Len(bytes) = SizeOf(type)
  PROVE  Convert(type, Decode(type, bytes)) = Decode(type, bytes)
<1>1. CASE type # boolean
  BY <1>1, EncodingUndoesDecoding DEF Convert, Wrapped
<1>2. CASE type = boolean
  <2>1. Decode(type, bytes) \in {0, 1}
    BY <1>2, DecodeCases
  <2> QED
    BY <1>2, <2>1 DEF Convert
<1> QED
  BY <1>1, <1>2

LEMMA WrittenNumbersConvert ==
  ASSUME NEW type \in ParameterValueType, NEW n \in Int
  PROVE  Decode(type, Encode(type, Convert(type, n))) = Convert(type, n)
<1>1. CASE type # boolean
  <2> DEFINE bytes == Encode(type, n)
  <2>1. bytes \in Seq(Byte) /\ Len(bytes) = SizeOf(type)
    BY EncodingIsBytes
  <2>2. Convert(type, n) = Decode(type, bytes)
    BY <1>1 DEF Convert, Wrapped
  <2> HIDE DEF bytes
  <2>3. Encode(type, Decode(type, bytes)) = bytes
    BY <1>1, <2>1, EncodingUndoesDecoding
  <2> QED
    BY <2>2, <2>3
<1>2. CASE type = boolean
  <2>1. Convert(type, n) \in {0, 1}
    BY <1>2 DEF Convert
  <2> QED
    BY <1>2, <2>1, BooleansSurvive
<1> QED
  BY <1>1, <1>2

-----------------------------------------------------------------------------
(* A cell tells what the device holds.                                     *)

\* The r-th row shows a parameter that is the tool's to change, and nothing is known
\* that could have made it differ from the device's variable.
Told(r) ==
  /\ rows[r].meta_data = MetaDataOf(r) /\ valueIsWritable(Definitions[r])
  /\ Definitions[r].id \notin doubt
  /\ ~(job.kind = "write" /\ job.id = Definitions[r].id)

Mirrors(r) ==
  Decode(Definitions[r].value_type, memory[Definitions[r].variable])
    = Convert(Definitions[r].value_type, rows[r].value)

\* TableMirrorsDevice while the table fills and while a cell is written, too.
Mirror == tool = "running" => \A r \in DOMAIN rows : Told(r) => Mirrors(r)

\* What the table takes for granted of the definitions.
Grounds ==
  IdZeroIsFree(Definitions) /\ WritersApart(Definitions) /\ CounterIsReadOnly(Definitions)

\* Of two rows the tool may change, a write to one leaves the other's variable alone.
LEMMA WritesToOthers ==
  ASSUME WritersApart(Definitions), NEW i \in DOMAIN Definitions, NEW r \in DOMAIN Definitions,
         valueIsWritable(Definitions[i]), valueIsWritable(Definitions[r]), i # r, NEW bytes
  PROVE  Stored(i, bytes)[Definitions[r].variable] = memory[Definitions[r].variable]
BY DEF WritersApart, Stored

\* A step that leaves rows, memory and doubts alone.
LEMMA NothingMoves ==
  ASSUME Mirror, UNCHANGED <<rows, memory, doubt>>,
         tool' # tool => tool' # "running",
         job' = job \/ job.kind # "write"
  PROVE  Mirror'
<1> SUFFICES ASSUME tool' = "running", NEW r \in DOMAIN rows', Told(r)'
             PROVE  Mirrors(r)'
  BY DEF Mirror
<1>1. Told(r)
  BY DEF Told
<1>2. Mirrors(r)
  BY <1>1 DEF Mirror
<1> QED
  BY <1>2 DEF Mirrors

LEMMA DeviceStepsMirror ==
  ASSUME Grounds, Consistent, Mirror, MainLoop \/ Restart \/ OtherToolWrites
  PROVE  Mirror'
<1> SUFFICES ASSUME tool' = "running", NEW r \in DOMAIN rows', Told(r)'
             PROVE  Mirrors(r)'
  BY DEF Mirror
<1>1. UNCHANGED <<rows, job, tool>>
  BY DEF MainLoop, Restart, OtherToolWrites, toolVars, tableVars
<1>2. r \in DOMAIN rows /\ r \in DOMAIN Definitions /\ valueIsWritable(Definitions[r])
      /\ Definitions[r].id \notin doubt'
  BY <1>1, RowFacts DEF Told, Consistent
<1> SUFFICES ASSUME ~Restart
             PROVE  Definitions[r].id \notin doubt
                    /\ memory'[Definitions[r].variable] = memory[Definitions[r].variable]
  <2>1. ~Restart
    <3>1. Definitions[r].id \in WritableIds
      BY <1>2 DEF WritableIds
    <3> QED
      BY <1>2, <3>1 DEF Restart
  <2>2. Told(r) => Mirrors(r)
    BY <1>1 DEF Mirror
  <2>3. Definitions[r].id \notin doubt => Told(r)
    BY <1>1 DEF Told
  <2> QED
    BY <1>1, <2>1, <2>2, <2>3 DEF Mirrors
<1>3. CASE MainLoop
  <2>1. Definitions[r].variable # "test_uint32"
    BY <1>2 DEF Grounds, CounterIsReadOnly
  <2>2. memory' = CountedLoop(memory) /\ doubt' = doubt
    BY <1>3 DEF MainLoop
  <2>3. memory'[Definitions[r].variable] = memory[Definitions[r].variable]
    <3>1. Definitions[r].variable \in DOMAIN memory
      BY <1>2, DefinitionFacts DEF Consistent, MemoryTyped
    <3> QED
      BY <2>1, <2>2, <3>1 DEF CountedLoop
  <2> QED
    BY <1>2, <2>2, <2>3
<1>4. CASE OtherToolWrites
  <2>1. PICK data \in OtherWrites :
          /\ memory' = AnswerWrite(Database, memory, data).memory
          /\ doubt' = IF AnswerWrite(Database, memory, data).response_code = ok
                      THEN doubt \cup {data[1]} ELSE doubt
    BY <1>4 DEF OtherToolWrites
  <2>2. data \in Seq(Byte)
    BY InputsAssumption
  <2>3. \/ memory' = memory /\ doubt' = doubt
        \/ /\ doubt' = doubt \cup {data[1]}
           /\ \E i \in DOMAIN Definitions, bytes \in Seq(Byte) :
                /\ Definitions[i].id = data[1] /\ valueIsWritable(Definitions[i])
                /\ memory' = Stored(i, bytes)
    BY <2>1, <2>2, AnyWriteAnswers
  <2> QED
    BY <1>2, <2>3, WritesToOthers DEF Grounds
<1> QED
  BY <1>3, <1>4

\* A read of a row's variable, done: its cell mirrors it, or there is a doubt.
LEMMA ReadsMirror ==
  ASSUME Consistent, NEW k \in DOMAIN Definitions, NEW response,
         ReadResult(response, Definitions[k].id, Definitions[k].value_type),
         Definitions[k].id \notin DoubtAfterRead(Definitions[k].id, response)
  PROVE  LET type == Definitions[k].value_type
         IN  Decode(type, memory[Definitions[k].variable])
               = Convert(type, readValue(response, type))
<1> DEFINE type  == Definitions[k].value_type
           bytes == memory[Definitions[k].variable]
<1>1. response.response_code = ok
  BY DEF DoubtAfterRead
<1>2. response.value = bytes
  BY <1>1, DefinitionsAssumption DEF ReadResult
<1>3. type \in ParameterValueType /\ bytes \in Seq(Byte) /\ Len(bytes) = SizeOf(type)
  BY DefinitionFacts DEF Consistent, MemoryTyped
<1>4. readValue(response, type) = Decode(type, bytes)
  BY <1>1, <1>2 DEF readValue
<1> QED
  BY <1>3, <1>4, ReadBytesConvert

LEMMA FetchValueMirrors ==
  ASSUME Grounds, Consistent, Mirror, FetchValue
  PROVE  Mirror'
<1> DEFINE k == Len(rows) + 1
<1>1. /\ job.kind = "value" /\ memory' = memory /\ tool' = tool
      /\ FetchNext(Tail(job.ids), rows')
  BY FetchValueEffect DEF Consistent
<1>2. PICK response :
        /\ ReadResult(response, Head(job.ids), job.meta_data.value_type)
        /\ rows' = Append(rows, [meta_data |-> job.meta_data,
                                 value |-> readValue(response, job.meta_data.value_type)])
        /\ doubt' = DoubtAfterRead(job.meta_data.id, response)
  BY FetchValueEffect DEF Consistent
<1>3. /\ Len(rows) < Len(Definitions)
      /\ job.ids = SubSeq(Ids, Len(rows) + 1, Len(Definitions))
      /\ job.meta_data \in {MetaDataOf(k), ZeroMetaData}
  BY <1>1 DEF Consistent, JobFits
<1>4. /\ Len(rows) \in Nat /\ k \in DOMAIN Definitions
      /\ Head(job.ids) = Definitions[k].id
  BY <1>3, RowFacts, IdsAhead DEF Consistent
<1> DEFINE row == [meta_data |-> job.meta_data,
                   value |-> readValue(response, job.meta_data.value_type)]
<1>5. rows \in Seq(Row) /\ DOMAIN rows = 1..Len(rows)
  BY RowFacts DEF Consistent, RowsFit
<1>6. /\ DOMAIN rows' = 1..k /\ rows'[k] = row
      /\ \A r \in 1..Len(rows) : rows'[r] = rows[r]
  <2> HIDE DEF row
  <2> QED
    BY <1>2, <1>4, <1>5 DEF row
<1> SUFFICES ASSUME tool' = "running", NEW r \in DOMAIN rows', Told(r)'
             PROVE  Mirrors(r)'
  BY DEF Mirror
<1>7. r \in 1..k /\ rows'[r].meta_data = MetaDataOf(r) /\ valueIsWritable(Definitions[r])
      /\ Definitions[r].id \notin doubt'
  BY <1>6 DEF Told
<1>8. CASE r = k
  <2>1. /\ job.meta_data = MetaDataOf(k)
        /\ rows'[k].value = readValue(response, job.meta_data.value_type)
    BY <1>6, <1>7, <1>8
  <2>2. /\ job.meta_data.id = Definitions[k].id
        /\ job.meta_data.value_type = Definitions[k].value_type
    BY <1>4, <2>1, DefinitionFacts
  <2>3. Decode(Definitions[k].value_type, memory[Definitions[k].variable])
          = Convert(Definitions[k].value_type, readValue(response, Definitions[k].value_type))
    BY <1>2, <1>4, <1>7, <1>8, <2>2, ReadsMirror
  <2> QED
    BY <1>1, <1>8, <2>1, <2>2, <2>3 DEF Mirrors
<1>9. CASE r # k
  <2>1. r \in DOMAIN rows /\ r \in DOMAIN Definitions /\ rows'[r] = rows[r]
    BY <1>4, <1>5, <1>6, <1>7, <1>9, RowFacts DEF Consistent
  <2>2. job.meta_data.id # Definitions[r].id
    BY <1>3, <1>4, <1>9, <2>1, RowsOfIds DEF Grounds
  <2>3. Definitions[r].id \notin doubt
    BY <1>2, <1>7, <2>2 DEF DoubtAfterRead
  <2>4. Told(r)
    BY <1>1, <1>7, <2>1, <2>3 DEF Told
  <2> QED
    BY <1>1, <2>1, <2>4 DEF Mirror, Mirrors
<1> QED
  BY <1>8, <1>9

LEMMA RefreshRowMirrors ==
  ASSUME Grounds, Consistent, Mirror, RefreshRow
  PROVE  Mirror'
<1> DEFINE k         == job.row
           meta_data == rows[k].meta_data
<1>1. job.kind = "refresh" /\ memory' = memory /\ tool' = tool
  BY RefreshRowEffect DEF Consistent
<1>2. PICK response :
        /\ ReadResult(response, meta_data.id, meta_data.value_type)
        /\ rows' = [rows EXCEPT ![k].value = readValue(response, meta_data.value_type)]
        /\ doubt' = DoubtAfterRead(meta_data.id, response)
  BY RefreshRowEffect DEF Consistent
<1>3. k \in DOMAIN rows
  BY <1>1 DEF Consistent, JobFits
<1>4. readValue(response, meta_data.value_type) \in Int
  BY <1>2, ReadValuesAreWhole DEF Consistent
<1>5. /\ SameMetaData /\ rows'[k].value = readValue(response, meta_data.value_type)
      /\ \A q \in DOMAIN rows : q # k => rows'[q] = rows[q]
  BY <1>2, <1>3, <1>4, ValueChangeKeepsMetaData DEF Consistent
<1>6. /\ k \in DOMAIN Definitions /\ DOMAIN rows' = DOMAIN rows
      /\ meta_data \in {MetaDataOf(k), ZeroMetaData}
  BY <1>3, <1>5, RowFacts DEF Consistent, RowsFit, SameMetaData
<1> SUFFICES ASSUME tool' = "running", NEW r \in DOMAIN rows', Told(r)'
             PROVE  Mirrors(r)'
  BY DEF Mirror
<1>7. /\ r \in DOMAIN rows /\ r \in DOMAIN Definitions
      /\ rows[r].meta_data = MetaDataOf(r) /\ valueIsWritable(Definitions[r])
      /\ Definitions[r].id \notin doubt'
  BY <1>5, <1>6, RowFacts DEF Told, SameMetaData, Consistent
<1>8. CASE r = k
  <2>1. meta_data.id = Definitions[k].id /\ meta_data.value_type = Definitions[k].value_type
    BY <1>6, <1>7, <1>8, DefinitionFacts
  <2>2. Decode(Definitions[k].value_type, memory[Definitions[k].variable])
          = Convert(Definitions[k].value_type, readValue(response, Definitions[k].value_type))
    BY <1>2, <1>6, <1>7, <1>8, <2>1, ReadsMirror
  <2> QED
    BY <1>1, <1>5, <1>8, <2>1, <2>2 DEF Mirrors
<1>9. CASE r # k
  <2>1. meta_data.id # Definitions[r].id
    BY <1>6, <1>7, <1>9, RowsOfIds DEF Grounds
  <2>2. Definitions[r].id \notin doubt
    BY <1>2, <1>7, <2>1 DEF DoubtAfterRead
  <2>3. Told(r)
    BY <1>1, <1>7, <2>2 DEF Told
  <2> QED
    BY <1>1, <1>5, <1>7, <1>9, <2>3 DEF Mirror, Mirrors
<1> QED
  BY <1>8, <1>9

LEMMA CommitEditMirrors ==
  ASSUME Grounds, Consistent, Mirror, CommitEdit
  PROVE  Mirror'
<1> DEFINE k == editor.row
<1>1. /\ memory' = memory /\ doubt' = doubt /\ job = Idle /\ tool = "running" /\ Editable(k)
  BY CommitEditEffect
<1> SUFFICES ASSUME tool' = "running", NEW r \in DOMAIN rows', Told(r)'
             PROVE  Mirrors(r)'
  BY DEF Mirror
<1>2. PICK value \in Int :
        /\ rows' = [rows EXCEPT ![k].value = value]
        /\ job' = [kind |-> "write", id |-> rows[k].meta_data.id, value |-> value]
  BY CommitEditEffect
<1>3. k \in DOMAIN rows
  BY <1>1 DEF Editable
<1>4. SameMetaData /\ \A q \in DOMAIN rows : q # k => rows'[q] = rows[q]
  BY <1>2, <1>3, ValueChangeKeepsMetaData DEF Consistent
<1>5. DOMAIN rows' = DOMAIN rows
  BY <1>4, RowFacts DEF SameMetaData, Consistent
<1>6. /\ r \in DOMAIN rows /\ r \in DOMAIN Definitions
      /\ rows[r].meta_data = MetaDataOf(r) /\ valueIsWritable(Definitions[r])
      /\ Definitions[r].id \notin doubt
  BY <1>1, <1>4, <1>5, RowFacts DEF Told, SameMetaData, Consistent
<1>7. r # k
  <2>1. rows[k].meta_data.id # Definitions[r].id
    BY <1>2 DEF Told
  <2> QED
    BY <1>6, <2>1, DefinitionFacts
<1>8. Told(r)
  BY <1>1, <1>6 DEF Told, Idle
<1> QED
  BY <1>1, <1>4, <1>6, <1>7, <1>8 DEF Mirror, Mirrors

LEMMA WriteValueMirrors ==
  ASSUME Grounds, Consistent, Mirror, WriteValue
  PROVE  Mirror'
<1>1. /\ job.kind = "write" /\ tool = "running" /\ job' = Idle /\ rows' = rows
  BY DEF WriteValue, Exchange, Undisturbed, Disturbed, Doing, tableVars
<1>2. PICK k \in DOMAIN rows :
        /\ k \in DOMAIN Definitions /\ valueIsWritable(Definitions[k])
        /\ rows[k].meta_data = MetaDataOf(k)
        /\ job.id = Definitions[k].id
        /\ LET type    == Definitions[k].value_type
               written == Stored(k, Encode(type, Convert(type, rows[k].value)))
           IN  \/ memory' = written /\ doubt' = doubt \ {job.id}
               \/ memory' \in {memory, written} /\ doubt' = doubt \cup {job.id}
  BY WriteValueEffect DEF Grounds
<1> DEFINE type   == Definitions[k].value_type
           number == Convert(type, rows[k].value)
<1> SUFFICES ASSUME NEW r \in DOMAIN rows', Told(r)'
             PROVE  Mirrors(r)'
  BY DEF Mirror
<1>3. /\ r \in DOMAIN rows /\ r \in DOMAIN Definitions
      /\ rows[r].meta_data = MetaDataOf(r) /\ valueIsWritable(Definitions[r])
      /\ Definitions[r].id \notin doubt'
  BY <1>1, RowFacts DEF Told, Consistent
<1>4. CASE r = k
  <2>1. memory' = Stored(k, Encode(type, number))
    BY <1>2, <1>3, <1>4
  <2>2. Definitions[k].variable \in DOMAIN memory
    BY <1>2, DefinitionFacts DEF Consistent, MemoryTyped
  <2> HIDE DEF number
  <2>3. memory'[Definitions[k].variable] = Encode(type, number)
    BY <2>1, <2>2 DEF Stored
  <2>4. type \in ParameterValueType /\ rows[k].value \in Int
    BY <1>2, DefinitionFacts, RowFacts DEF Consistent
  <2>5. Decode(type, Encode(type, number)) = number
    BY <2>4, WrittenNumbersConvert DEF number
  <2> QED
    BY <1>1, <1>4, <2>3, <2>5 DEF Mirrors, number
<1>5. CASE r # k
  <2>1. Definitions[r].id # job.id
    BY <1>2, <1>3, <1>5, DefinitionsAssumption
  <2>2. Definitions[r].id \notin doubt
    BY <1>2, <1>3, <2>1
  <2>3. memory'[Definitions[r].variable] = memory[Definitions[r].variable]
    BY <1>2, <1>3, <1>5, WritesToOthers DEF Grounds
  <2>4. Told(r)
    BY <1>3, <2>1, <2>2 DEF Told
  <2> QED
    BY <1>1, <2>3, <2>4 DEF Mirror, Mirrors
<1> QED
  BY <1>4, <1>5

LEMMA QuietStepsMirror ==
  ASSUME Consistent, Mirror,
         \/ RefreshDevices \/ PortChosen \/ NoPortChosen \/ OpenView \/ AutomaticRefresh
         \/ Filter \/ CancelEdit \/ Sort \/ StartEdit
         \/ RefreshClicked \/ RefreshAllClicked \/ RefreshTimeout
         \/ FindDevice \/ FetchIds \/ PortFails \/ UNCHANGED vars
  PROVE  Mirror'
<1>1. CASE RefreshDevices \/ PortChosen \/ NoPortChosen \/ OpenView
  <2>1. /\ UNCHANGED <<rows, memory, doubt>> /\ tool' \in {tool, "undefined"}
        /\ job.kind # "write"
    BY <1>1 DEF RefreshDevices, PortChosen, NoPortChosen, OpenView, refreshDeviceList,
       UserMayClick, Idle, tableVars, deviceVars, ghosts
  <2> QED
    BY <2>1, NothingMoves
<1>2. CASE AutomaticRefresh \/ Filter \/ CancelEdit \/ Sort \/ StartEdit
  <2>1. UNCHANGED <<rows, memory, doubt, tool, job>>
    BY <1>2 DEF AutomaticRefresh, Filter, CancelEdit, Sort, StartEdit, tableVars, deviceVars,
       ghosts
  <2> QED
    BY <2>1, NothingMoves
<1>3. CASE RefreshClicked \/ RefreshAllClicked \/ RefreshTimeout
  <2>1. PICK only_signals \in BOOLEAN : Refresh(only_signals)
    BY <1>3 DEF RefreshClicked, RefreshAllClicked, RefreshTimeout
  <2>2. job.kind # "write"
    <3>1. job = Idle
      BY <1>3 DEF RefreshClicked, RefreshAllClicked, RefreshTimeout, UserMayClick
    <3> QED
      BY <3>1 DEF Idle
  <2>3. UNCHANGED <<rows, memory, doubt>> /\ tool' \in {tool, "undefined"}
    BY <2>1 DEF Refresh, CallDevice, tableVars, deviceVars, ghosts
  <2> QED
    BY <2>2, <2>3, NothingMoves
<1>4. CASE FindDevice
  <2>1. UNCHANGED <<rows, memory, doubt, tool>> /\ job.kind # "write"
    BY <1>4, FindDeviceEffect DEF FindDevice, Doing, tableVars, ghosts
  <2> QED
    BY <2>1, NothingMoves
<1>5. CASE FetchIds
  <2>1. UNCHANGED <<rows, memory, doubt, tool>> /\ job.kind # "write"
    BY <1>5, FetchIdsEffect DEF ghosts
  <2> QED
    BY <2>1, NothingMoves
<1>6. CASE PortFails
  BY <1>6 DEF PortFails, ToolEnds, Mirror
<1>7. CASE UNCHANGED vars
  <2>1. UNCHANGED <<rows, memory, doubt, tool, job>>
    BY <1>7 DEF vars
  <2> QED
    BY <2>1, NothingMoves
<1> QED
  BY <1>1, <1>2, <1>3, <1>4, <1>5, <1>6, <1>7

LEMMA FetchMetaDataMirrors ==
  ASSUME Consistent, Mirror, FetchMetaData
  PROVE  Mirror'
<1>1. job.kind = "metadata"
  BY DEF FetchMetaData, Doing
<1>2. Len(rows) < Len(Definitions) /\ job.ids = SubSeq(Ids, Len(rows) + 1, Len(Definitions))
  BY <1>1 DEF Consistent, JobFits
<1>3. Len(rows) + 1 \in DOMAIN Definitions /\ Head(job.ids) = Definitions[Len(rows) + 1].id
  BY <1>2, IdsAhead, RowFacts DEF Consistent
<1>4. UNCHANGED <<rows, memory, doubt, tool>>
  BY <1>3, FetchMetaDataEffect DEF tableVars, ghosts
<1> QED
  BY <1>1, <1>4, NothingMoves

\* A saved or runtime parameter's cell tells what the device holds, for every sequence of
\* edits, reads, writes of other tools and restarts, unless there is a known doubt.
THEOREM CellsTellTheDevice ==
  ASSUME IdZeroIsFree(Definitions), WritersApart(Definitions), CounterIsReadOnly(Definitions)
  PROVE  Spec => []TableMirrorsDevice
<1>1. Grounds
  BY DEF Grounds
<1>2. Init => Mirror
  BY DEF Init, Mirror, Told
<1>3. Consistent /\ Mirror /\ [Next]_vars => Mirror'
  BY <1>1, DeviceStepsMirror, FetchValueMirrors, RefreshRowMirrors, CommitEditMirrors,
     WriteValueMirrors, QuietStepsMirror, FetchMetaDataMirrors DEF Next, ToolStep
<1>4. Consistent /\ Mirror => TableMirrorsDevice
  <2> SUFFICES ASSUME Consistent, Mirror, tool = "running", job.kind # "write",
                      NEW r \in DOMAIN rows, rows[r].meta_data.id \in WritableIds \ doubt
               PROVE  Decode(rows[r].meta_data.value_type,
                             memory[VariableOf(rows[r].meta_data.id)])
                        = Convert(rows[r].meta_data.value_type, rows[r].value)
    BY DEF TableMirrorsDevice
  <2>1. PICK i \in DOMAIN Definitions :
          valueIsWritable(Definitions[i]) /\ rows[r].meta_data.id = Definitions[i].id
    BY DEF WritableIds
  <2>2. r \in DOMAIN Definitions /\ rows[r].meta_data \in {MetaDataOf(r), ZeroMetaData}
    BY RowFacts DEF Consistent, RowsFit
  <2>3. rows[r].meta_data = MetaDataOf(r) /\ r = i
    BY <2>1, <2>2, RowsOfIds
  <2>4. VariableOf(rows[r].meta_data.id) = Definitions[r].variable
    <3>1. (CHOOSE j \in DOMAIN Definitions : Definitions[j].id = Definitions[r].id) = r
      BY <2>2, DefinitionsAssumption
    <3> QED
      BY <2>1, <2>3, <3>1 DEF VariableOf
  <2>5. rows[r].meta_data.value_type = Definitions[r].value_type
    BY <2>2, <2>3, DefinitionFacts
  <2>6. Told(r)
    BY <2>1, <2>3 DEF Told
  <2> QED
    BY <2>4, <2>5, <2>6 DEF Mirror, Mirrors
<1> QED
  BY <1>2, <1>3, <1>4, ToolStaysConsistent, PTL DEF Spec

=============================================================================
