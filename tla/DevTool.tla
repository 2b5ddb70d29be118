------------------------------- MODULE DevTool -------------------------------
(***************************************************************************)
(* The dev tool on the host, the control API it calls and the device whose *)
(* parameters it shows and writes.                                         *)
(*                                                                         *)
(* The tool is one Qt thread: a slot that talks to the device blocks it,   *)
(* exchange by exchange, while the device goes on.  A slot with exchanges  *)
(* is a job; each step of a job is one call of the control API.  An        *)
(* exchange is one step with a choice of outcomes, which is what           *)
(* CommandExchange allows: nothing of a call outlives it.                  *)
(***************************************************************************)
EXTENDS FirmwareParameters, FiniteSets

CONSTANTS
  Definitions,     \* the definitions the device registers
  TypedNumbers,    \* what the user types into a spin box
  Orders,          \* row orders a click on a column header may give
  HiddenRows,      \* sets of rows a filter text may hide
  OtherWrites,     \* payloads of write requests another tool sends
  Uninitialised,   \* metadata the device's stack may hold
  \* Bounds:
  MaxMishaps,      \* disturbed exchanges, failures of the serial port, writes of
                   \* another tool and restarts of the device
  MaxLoops,        \* turns of the device's main loop
  MaxEdits,        \* edits of a cell
  MaxPortChanges   \* selections in the port combo box

\* What registerParameter, getParamIds and the definitions' constructors assert, a
\* variable of the value's size behind each definition, and names that end where
\* their null is.
ASSUME DefinitionsAssumption ==
  /\ Definitions \in Seq([id : Byte, category : ParameterCategory,
                          value_type : ParameterValueType, read_write_access : ReadWriteAccess,
                          name : Seq(Byte), variable : DOMAIN InitialMemory])
  /\ \A i, j \in DOMAIN Definitions : Definitions[i].id = Definitions[j].id => i = j
  /\ \A i \in DOMAIN Definitions :
       /\ AccessFitsCategory(Definitions[i].category, Definitions[i].read_write_access)
       /\ SizeOf(Definitions[i].value_type) = Len(InitialMemory[Definitions[i].variable])
       /\ Definitions[i].name # << >>
       /\ \A k \in DOMAIN Definitions[i].name :
            Definitions[i].name[k] = 0 <=> k = Len(Definitions[i].name)
  /\ Len(Definitions) <= 64 /\ Len(Definitions) <= K_MAX_PARAMETER_ID

\* What the user and other tools may do: numbers and bytes, and an order has each
\* of its rows once.
ASSUME InputsAssumption ==
  /\ TypedNumbers \subseteq Int
  /\ OtherWrites \subseteq Seq(Byte)
  /\ \A o \in Orders : o \in Seq(Nat) /\ {o[p] : p \in DOMAIN o} = 1..Len(o)

VARIABLES
  memory,     \* the firmware's variables
  context,    \* what context_ points to: "null", "open" or "destroyed"
  found,      \* devices_ holds the device, and the list shows it
  view,       \* "none", "filling" or "open": a DeviceControlWidget
  rows,       \* rows_ of its parameter table
  order,      \* the source rows as the proxy model orders them
  by_value,   \* sorted by the value column: a changed cell may move rows
  hidden,     \* the rows the filter hides
  timer,      \* refresh_timer_ runs
  editor,     \* the open cell editor
  job,        \* what the blocked thread is doing
  tool,       \* "running", "terminated", "asserted" or "undefined"
  doubt,      \* ids whose cell may differ from the device, and why is known
  refused,    \* the device turned down a write the tool sent
  resorted,   \* the rows moved while an editor was open
  loops, mishaps, edits, port_changes    \* for the bounds

deviceVars == <<memory, loops>>
tableVars  == <<view, rows, order, by_value, hidden, timer>>
ghosts     == <<doubt, refused, resorted>>
vars == <<memory, context, found, view, rows, order, by_value, hidden, timer, editor,
          job, tool, doubt, refused, resorted, loops, mishaps, edits, port_changes>>

Database == Registered(Definitions)

Idle     == [kind |-> "idle"]
NoEditor == [row |-> 0]

\* ParameterMetaData{}: what a failed fetch of metadata returns.
ZeroMetaData == [id |-> 0, category |-> saved_parameter, value_type |-> uint8,
                 read_write_access |-> read_only, name |-> <<0>>]

-----------------------------------------------------------------------------
(* One exchange: Use says what the caller does with the response.          *)
(*   - it succeeds;                                                        *)
(*   - it is disturbed: the device may have carried the request out or     *)
(*     not, the host sees corrupted bytes or none in time;                 *)
(*   - the serial port fails, the driver throws and nobody catches;        *)
(*   - the view's device, or its context, is gone: undefined.              *)
DeviceUsable == found /\ context = "open"

FailedResponse(code) == [response_code |-> code, value |-> << >>]

\* The answers the device may give now.
Answers(operation, data) ==
  {DeviceAnswer(Database, memory, operation, data, u) : u \in Uninitialised}

Undisturbed(operation, data, Use(_)) ==
  \E answer \in Answers(operation, data) :
    \E response \in {CommandResponse(operation, answer)} :
      /\ memory' = answer.memory
      /\ Use(response)
      /\ UNCHANGED mishaps

Disturbed(operation, data, Use(_)) ==
  /\ mishaps < MaxMishaps
  /\ mishaps' = mishaps + 1
  /\ memory' \in {memory} \cup {answer.memory : answer \in Answers(operation, data)}
  /\ \E code \in {timed_out, corrupted} : Use(FailedResponse(code))

\* The tool is gone: nothing it held matters any more.
ToolEnds(how) ==
  /\ tool' = how
  /\ job' = Idle
  /\ editor' = NoEditor
  /\ UNCHANGED <<deviceVars, context, found, tableVars, ghosts, edits, port_changes>>

PortFails ==
  /\ tool = "running" /\ job # Idle
  /\ mishaps < MaxMishaps
  /\ mishaps' = mishaps + 1
  /\ ToolEnds("terminated")

Exchange(operation, data, Use(_)) ==
  /\ context = "open"
  /\ \/ Undisturbed(operation, data, Use)
     \/ Disturbed(operation, data, Use)
  /\ UNCHANGED <<loops, context, edits, port_changes>>

\* A job step runs in a tool that runs.
Doing(kind) == tool = "running" /\ job.kind = kind

-----------------------------------------------------------------------------
(* Device and control API calls.                                           *)
PingPayload           == SerializeEmpty
MetadataPayload(id)   == SerializeMetadataRequest([parameter_id |-> id])
ReadPayload(id, type) ==
  SerializeReadRequest([parameter_id |-> id, expected_value_type |-> type])

\* fetchRegisteredParamIds: no ids after an error.
fetchedParamIds(response) ==
  IF response.response_code = ok THEN Contents(response.value) ELSE << >>

\* fetchParameterMetaData: all zeros after an error.
fetchedMetaData(response) ==
  IF response.response_code = ok THEN response.value ELSE ZeroMetaData

\* readParameterValue: zero after an error.
readValue(response, type) ==
  IF response.response_code = ok THEN Decode(type, response.value) ELSE 0

\* take asserts the size of what came with an ok.
TakeFails(response, type) == response.response_code = ok /\ ~CanTake(type, response.value)

-----------------------------------------------------------------------------
(* Numbers on their way from an editor to the device.  Only what the typed *)
(* numbers need is defined: 1000 fits four bytes, 300 not one.             *)
Wrapped(type, n) == Decode(type, Encode(type, n))

Highest(type) ==
  Decode(type, [i \in 1..SizeOf(type) |->
                  IF i = SizeOf(type) /\ type \in SignedType THEN UINT8_MAX \div 2
                  ELSE UINT8_MAX])

\* A spin box gives a double; one that does not fit the target is converted as
\* the compiler likes: wrapped or clamped.
Casts(type, n) == IF Wrapped(type, n) = n THEN {n} ELSE {Wrapped(type, n), Highest(type)}

\* QVariant::value, from the cell to the type written.
Convert(type, n) == IF type # boolean THEN Wrapped(type, n) ELSE IF n = 0 THEN 0 ELSE 1

-----------------------------------------------------------------------------
(* The table: rows_ is the source model; the view shows it through the     *)
(* proxy model, sorted and filtered.                                       *)
Shown(r)    == r \notin hidden /\ \E p \in DOMAIN order : order[p] = r
Position(r) == CHOOSE p \in DOMAIN order : order[p] = r

\* Of the rows that are not hidden, the row is the one with this number.
ProxyRow(r) == Cardinality({p \in 1..Position(r) : order[p] \notin hidden})

\* The orders the rows may be in once a cell has changed.
OrdersAfterChange ==
  {order} \cup IF by_value THEN {o \in Orders : Len(o) = Len(rows)} ELSE {}

Reorder(orders) ==
  \E o \in orders :
    /\ order' = o
    /\ resorted' = (resorted \/ (editor # NoEditor /\ o # order))

\* Mutation: every access makes a cell editable.
editableWhateverAccess(row) == row.meta_data.read_write_access \in ReadWriteAccess

\* flags of the value column.
parameterIsEditable(row) == row.meta_data.read_write_access = read_write

\* The delegate, which reads rows_ at the row of the index it is given, an
\* index of the proxy model.
EditorKind(type) == IF type = boolean THEN "combo" ELSE "spin"

DelegateRow(r) == rows[ProxyRow(r)]

\* Mutation: a spin box for every type.
createSpinBox(r) == EditorKind(uint8)

createEditor(r) == EditorKind(DelegateRow(r).meta_data.value_type)

\* setEditorData: a spin box of a real type starts at zero.
setEditorData(r) ==
  LET type == DelegateRow(r).meta_data.value_type
      n    == DelegateRow(r).value
  IN  IF type = boolean THEN Convert(boolean, n)
      ELSE IF type \in RealType /\ n < 0 THEN 0 ELSE n

\* writeParameterValue looks up the type by id, in the first row with it.
RowOfId(id) == CHOOSE r \in DOMAIN rows :
                 /\ rows[r].meta_data.id = id
                 /\ \A q \in DOMAIN rows : rows[q].meta_data.id = id => r <= q

TypeOfId(id) == rows[RowOfId(id)].meta_data.value_type

-----------------------------------------------------------------------------
Init ==
  /\ memory = InitialMemory
  /\ context = "null" /\ found = FALSE
  /\ view = "none" /\ rows = << >> /\ order = << >> /\ by_value = FALSE
  /\ hidden = {} /\ timer = FALSE /\ editor = NoEditor
  /\ job = Idle /\ tool = "running"
  /\ doubt = {} /\ refused = FALSE /\ resorted = FALSE
  /\ loops = 0 /\ mishaps = 0 /\ edits = 0 /\ port_changes = 0

-----------------------------------------------------------------------------
(* The device on its own, and another tool.                                *)
toolVars == <<context, found, tableVars, editor, job, tool, refused, resorted,
              edits, port_changes>>

MainLoop ==
  /\ loops < MaxLoops
  /\ loops' = loops + 1
  /\ memory' = CountedLoop(memory)
  /\ UNCHANGED <<doubt, mishaps, toolVars>>

WritableIds == {Definitions[i].id : i \in {j \in DOMAIN Definitions :
                                            valueIsWritable(Definitions[j])}}

\* Every variable starts over; saving parameters is not implemented.
Restart ==
  /\ mishaps < MaxMishaps
  /\ mishaps' = mishaps + 1
  /\ memory' = InitialMemory
  /\ doubt' = WritableIds
  /\ UNCHANGED <<loops, toolVars>>

OtherToolWrites ==
  /\ mishaps < MaxMishaps
  /\ mishaps' = mishaps + 1
  /\ \E data \in OtherWrites :
       LET answer == AnswerWrite(Database, memory, data) IN
       /\ memory' = answer.memory
       /\ doubt' = IF answer.response_code = ok THEN doubt \cup {data[1]} ELSE doubt
  /\ UNCHANGED <<loops, toolVars>>

-----------------------------------------------------------------------------
(* The main window.                                                        *)
UserMayClick == tool = "running" /\ job = Idle /\ editor = NoEditor

\* refreshDeviceList: devices_ is cleared under the views; a context that is
\* gone is not null and is called all the same.
refreshDeviceList(current) ==
  /\ found' = FALSE
  /\ job'  = IF current = "open" THEN [kind |-> "ping"] ELSE Idle
  /\ tool' = IF current = "destroyed" THEN "undefined" ELSE tool

RefreshDevices ==
  /\ UserMayClick
  /\ refreshDeviceList(context)
  /\ UNCHANGED <<deviceVars, context, tableVars, editor, ghosts, mishaps, edits, port_changes>>

\* onComPortChanged: the old context is deleted, whatever is chosen; only a
\* port makes a new one.
PortChosen ==
  /\ UserMayClick
  /\ port_changes < MaxPortChanges
  /\ port_changes' = port_changes + 1
  /\ context' = "open"
  /\ refreshDeviceList("open")
  /\ UNCHANGED <<deviceVars, tableVars, editor, ghosts, mishaps, edits>>

NoPortChosen ==
  /\ UserMayClick
  /\ port_changes < MaxPortChanges
  /\ port_changes' = port_changes + 1
  /\ context = "open"
  /\ context' = "destroyed"
  /\ refreshDeviceList("destroyed")
  /\ UNCHANGED <<deviceVars, tableVars, editor, ghosts, mishaps, edits>>

\* tryFindDeviceById(0).
FindDevice ==
  /\ Doing("ping")
  /\ Exchange(ping, PingPayload,
              LAMBDA response : /\ found' = (response.response_code = ok)
                                /\ job' = Idle)
  /\ UNCHANGED <<tableVars, editor, tool, ghosts>>

-----------------------------------------------------------------------------
(* Opening the device's view: initialize runs fetchParameters.             *)

\* openDeviceDelegateWidget; a second view of the device is not modelled.
OpenView ==
  /\ UserMayClick
  /\ found /\ view = "none"
  /\ view' = "filling"
  /\ job' = [kind |-> "ids"]
  /\ UNCHANGED <<deviceVars, context, found, rows, order, by_value, hidden, timer, editor,
                 tool, ghosts, mishaps, edits, port_changes>>

\* After the last row the model and the proxy are set up, unsorted.
FetchNext(ids, filled) ==
  IF ids = << >>
  THEN /\ view' = "open"
       /\ order' = [r \in DOMAIN filled |-> r]
       /\ job' = Idle
  ELSE /\ job' = [kind |-> "metadata", ids |-> ids]
       /\ UNCHANGED <<view, order>>

FetchIds ==
  /\ Doing("ids")
  /\ Exchange(get_all_registered_parameter_ids, SerializeEmpty,
              LAMBDA response : FetchNext(fetchedParamIds(response), rows))
  /\ UNCHANGED <<found, rows, by_value, hidden, timer, editor, tool, ghosts>>

FetchMetaData ==
  /\ Doing("metadata")
  /\ Exchange(get_parameter_metadata, MetadataPayload(Head(job.ids)),
              LAMBDA response : job' = [kind |-> "value", ids |-> job.ids,
                                        meta_data |-> fetchedMetaData(response)])
  /\ UNCHANGED <<found, tableVars, editor, tool, ghosts>>

\* A read of the row with this id, done: what is known of it now.
DoubtAfterRead(id, response) ==
  IF response.response_code = ok THEN doubt \ {id} ELSE doubt \cup {id}

\* The value is read by the registered id, as the type the metadata tell.
FetchValue ==
  /\ Doing("value")
  /\ LET type == job.meta_data.value_type IN
     Exchange(read_parameter_value, ReadPayload(Head(job.ids), type),
              LAMBDA response :
                IF TakeFails(response, type)
                THEN tool' = "asserted" /\ job' = Idle /\ UNCHANGED <<view, rows, order, doubt>>
                ELSE /\ rows' = Append(rows, [meta_data |-> job.meta_data,
                                              value |-> readValue(response, type)])
                     /\ doubt' = DoubtAfterRead(job.meta_data.id, response)
                     /\ FetchNext(Tail(job.ids), rows')
                     /\ UNCHANGED tool)
  /\ UNCHANGED <<found, by_value, hidden, timer, editor, refused, resorted>>

-----------------------------------------------------------------------------
(* Refreshing the rows, one read after the other.                          *)
NextToRead(only_signals, from) ==
  {r \in from..Len(rows) : ~only_signals \/ rows[r].meta_data.category = signal}

\* Mutation: after the last row comes the first.
RefreshAround(only_signals, from) ==
  LET rest == NextToRead(only_signals, from)
      next == IF rest = {} THEN NextToRead(only_signals, 1) ELSE rest
  IN  job' = IF next = {} THEN Idle
             ELSE [kind |-> "refresh", only_signals |-> only_signals,
                   row  |-> CHOOSE r \in next : \A q \in next : r <= q]

\* To the first row that is to be read, or done.
RefreshFrom(only_signals, from) ==
  job' = IF NextToRead(only_signals, from) = {} THEN Idle
         ELSE [kind         |-> "refresh",
               only_signals |-> only_signals,
               row          |-> CHOOSE r \in NextToRead(only_signals, from) :
                                  \A q \in NextToRead(only_signals, from) : r <= q]

\* A slot that calls a device that is not there any more is undefined.
CallDevice(Start) ==
  IF DeviceUsable THEN Start /\ UNCHANGED tool
  ELSE tool' = "undefined" /\ UNCHANGED job

\* refreshSignalParameterValues and refreshAllParameterValues.
Refresh(only_signals) ==
  /\ view = "open"
  /\ IF NextToRead(only_signals, 1) = {} THEN UNCHANGED <<job, tool>>
     ELSE CallDevice(RefreshFrom(only_signals, 1))
  /\ UNCHANGED <<deviceVars, context, found, tableVars, editor, ghosts, mishaps, edits,
                 port_changes>>

RefreshClicked    == UserMayClick /\ Refresh(TRUE)
RefreshAllClicked == UserMayClick /\ Refresh(FALSE)

\* The timer does not care about an open editor.
RefreshTimeout == tool = "running" /\ job = Idle /\ timer /\ Refresh(TRUE)

AutomaticRefresh ==
  /\ UserMayClick /\ view = "open"
  /\ timer' = ~timer
  /\ UNCHANGED <<deviceVars, context, found, view, rows, order, by_value, hidden, editor,
                 job, tool, ghosts, mishaps, edits, port_changes>>

RefreshRow ==
  /\ Doing("refresh")
  /\ LET meta_data == rows[job.row].meta_data IN
     Exchange(read_parameter_value, ReadPayload(meta_data.id, meta_data.value_type),
              LAMBDA response :
                IF TakeFails(response, meta_data.value_type)
                THEN /\ tool' = "asserted" /\ job' = Idle
                     /\ UNCHANGED <<rows, order, resorted, doubt>>
                ELSE /\ rows' = [rows EXCEPT ![job.row].value =
                                    readValue(response, meta_data.value_type)]
                     /\ doubt' = DoubtAfterRead(meta_data.id, response)
                     /\ Reorder(OrdersAfterChange)
                     /\ RefreshFrom(job.only_signals, job.row + 1)
                     /\ UNCHANGED tool)
  /\ UNCHANGED <<found, view, by_value, hidden, timer, editor, refused>>

-----------------------------------------------------------------------------
(* Sorting, filtering, editing.                                            *)

\* A click on a column header; an open editor stays open.
Sort ==
  /\ tool = "running" /\ job = Idle /\ view = "open"
  /\ by_value' \in BOOLEAN
  /\ Reorder({o \in Orders : Len(o) = Len(rows)})
  /\ UNCHANGED <<deviceVars, context, found, view, rows, hidden, timer, editor, job, tool,
                 doubt, refused, mishaps, edits, port_changes>>

Filter ==
  /\ UserMayClick /\ view = "open"
  /\ hidden' \in HiddenRows
  /\ UNCHANGED <<deviceVars, context, found, view, rows, order, by_value, timer, editor,
                 job, tool, ghosts, mishaps, edits, port_changes>>

StartEdit ==
  /\ UserMayClick /\ view = "open"
  /\ edits < MaxEdits
  /\ edits' = edits + 1
  /\ \E r \in DOMAIN rows :
       /\ Shown(r) /\ parameterIsEditable(rows[r])
       /\ editor' = [row |-> r, kind |-> createEditor(r), shown |-> setEditorData(r)]
  /\ resorted' = FALSE
  /\ UNCHANGED <<deviceVars, context, found, tableVars, job, tool, doubt, refused, mishaps,
                 port_changes>>

CancelEdit ==
  /\ tool = "running" /\ job = Idle /\ editor # NoEditor
  /\ editor' = NoEditor
  /\ UNCHANGED <<deviceVars, context, found, tableVars, job, tool, ghosts, mishaps, edits,
                 port_changes>>

\* What the user leaves in the editor.
Entered == {editor.shown} \cup IF editor.kind = "combo" THEN {0, 1} ELSE TypedNumbers

\* Mutation: the id is taken from the row the delegate saw.
setDataOfDelegateRow(r, value) ==
  /\ rows' = [rows EXCEPT ![r].value = value]
  /\ Reorder(OrdersAfterChange)
  /\ CallDevice(job' = [kind |-> "write", id |-> DelegateRow(r).meta_data.id, value |-> value])

\* setData: the proxy maps the index to the source row, the cell takes the
\* value and the table is told to write it to the device.
setData(r, value) ==
  /\ rows' = [rows EXCEPT ![r].value = value]
  /\ Reorder(OrdersAfterChange)
  /\ CallDevice(job' = [kind |-> "write", id |-> rows[r].meta_data.id, value |-> value])

\* setModelData takes the editor for the one the row of the index wants now,
\* and its value for one of that row's type.
CommitEdit ==
  /\ tool = "running" /\ job = Idle /\ editor # NoEditor
  /\ editor' = NoEditor
  /\ LET r    == editor.row
         type == DelegateRow(r).meta_data.value_type
     IN  IF editor.kind # EditorKind(type)
         THEN tool' = "undefined" /\ UNCHANGED <<rows, order, resorted, job>>
         ELSE \E n \in Entered : \E value \in Casts(type, n) : setData(r, value)
  /\ UNCHANGED <<deviceVars, context, found, view, by_value, hidden, timer, doubt, refused,
                 mishaps, edits, port_changes>>

\* writeParameterValue: the cell keeps its value whatever the device answers.
WriteValue ==
  /\ Doing("write")
  /\ LET type    == TypeOfId(job.id)
         request == PutValue(job.id, type, Convert(type, job.value))
     IN  Exchange(write_parameter_value, SerializeWriteRequest(request),
                  LAMBDA response :
                    /\ doubt' = DoubtAfterRead(job.id, response)
                    /\ refused' = (refused \/ response.response_code \notin
                                                {ok, timed_out, corrupted})
                    /\ job' = Idle)
  /\ UNCHANGED <<found, tableVars, editor, tool, resorted>>

-----------------------------------------------------------------------------
ToolStep == FindDevice \/ FetchIds \/ FetchMetaData \/ FetchValue \/ RefreshRow \/ WriteValue

Next ==
  \/ MainLoop \/ Restart \/ OtherToolWrites
  \/ RefreshDevices \/ PortChosen \/ NoPortChosen \/ OpenView
  \/ RefreshClicked \/ RefreshAllClicked \/ RefreshTimeout \/ AutomaticRefresh
  \/ Sort \/ Filter \/ StartEdit \/ CancelEdit \/ CommitEdit
  \/ ToolStep \/ PortFails

\* A blocking call ends, because the master handler gives up after its timeout:
\* weak fairness of ToolStep, which is enabled exactly while the tool is blocked
\* and is then the only step, with PortFails, that changes the job.
Blocked     == tool = "running" /\ job # Idle
CallsReturn == []<>~Blocked \/ []<><<Blocked /\ job' # job>>_vars

Spec == Init /\ [][Next]_vars /\ CallsReturn

-----------------------------------------------------------------------------
(* Properties.                                                             *)
Variables == DOMAIN InitialMemory

MetaDataOf(i)  == getMetaData(Definitions[i])
VariableOf(id) == Definitions[CHOOSE i \in DOMAIN Definitions : Definitions[i].id = id].variable

\* The bytes a variable has never change in number, and the parts of the tool
\* are what they can be.
TypeOK ==
  /\ \A v \in Variables : /\ memory[v] \in Seq(Byte)
                           /\ Len(memory[v]) = Len(InitialMemory[v])
  /\ context \in {"null", "open", "destroyed"} /\ found \in BOOLEAN
  /\ view \in {"none", "filling", "open"}
  /\ tool \in {"running", "terminated", "asserted", "undefined"}
  /\ \A r \in DOMAIN rows : rows[r].value \in Int
  /\ Len(order) \in {0, Len(rows)}
  /\ doubt \subseteq WritableIds \cup {Definitions[i].id : i \in DOMAIN Definitions} \cup {0}

\* What the table's mirroring rests on, of the definitions registered: the id of
\* metadata that could not be fetched names none of them, no variable is written
\* through two of them, and the main loop's own variable through none.
IdZeroIsFree(definitions) == \A i \in DOMAIN definitions : definitions[i].id # 0

WritersApart(definitions) ==
  \A i, j \in DOMAIN definitions :
    /\ valueIsWritable(definitions[i]) /\ valueIsWritable(definitions[j])
    /\ definitions[i].variable = definitions[j].variable
    => i = j

CounterIsReadOnly(definitions) ==
  \A i \in DOMAIN definitions :
    valueIsWritable(definitions[i]) => definitions[i].variable # "test_uint32"

\* A saved or runtime parameter's cell tells what the device holds, unless a
\* write or a read of it went wrong, another tool wrote it or the device
\* restarted, and nothing was read since: what the comment above the default
\* refresh takes for granted.
TableMirrorsDevice ==
  tool = "running" /\ view = "open" /\ job.kind # "write" =>
    \A r \in DOMAIN rows :
      LET meta_data == rows[r].meta_data IN
      meta_data.id \in WritableIds \ doubt =>
        Decode(meta_data.value_type, memory[VariableOf(meta_data.id)])
          = Convert(meta_data.value_type, rows[r].value)

\* The device never turns down an edit: what the table lets the user edit, it
\* writes with the id and the type the device has, in full length.
EditsAreAccepted == ~refused

\* The assertion in take never fails on the host: the device refuses a read
\* with the wrong type, even when the host's metadata are wrong.
TakeNeverFails == tool # "asserted"

\* The table has one row for each registered parameter in the order of
\* registration, with its metadata or none; or it is empty.
TableIsCompleteOrEmpty ==
  view = "open" /\ rows # << >> =>
    /\ Len(rows) = Len(Definitions)
    /\ \A r \in DOMAIN rows : rows[r].meta_data \in {MetaDataOf(r), ZeroMetaData}

\* The tool runs into undefined behaviour only through a device or a context
\* that was taken away, or rows that moved under an open editor.
UndefinedOnlyAfter ==
  tool = "undefined" => ~found \/ context = "destroyed" \/ resorted

\* A variable that only signals show is changed by the device alone: by its
\* main loop or a restart.
SignalVariables ==
  Variables \ {VariableOf(id) : id \in WritableIds}

SignalsBelongToDevice ==
  [][\A v \in SignalVariables :
       memory'[v] # memory[v] => loops' # loops \/ memory' = InitialMemory]_vars

\* A slot that talks to the device comes back, or the tool ends.
GuiComesBack == job # Idle ~> (job = Idle \/ tool # "running")

\* The exchanges the blocked thread has ahead of it, at most.
ExchangesLeft ==
  CASE job.kind = "idle"              -> 0
    [] job.kind \in {"ping", "write"} -> 1
    [] job.kind = "ids"               -> 2 * Len(Definitions) + 1
    [] job.kind = "metadata"          -> 2 * Len(job.ids)
    [] job.kind = "value"             -> 2 * Len(job.ids) - 1
    [] job.kind = "refresh"           -> Len(rows) - job.row + 1

\* Every exchange brings the slot that makes it nearer its end, whatever the
\* device answers and whatever goes wrong: no fetch or refresh starts over.
EveryExchangeCounts ==
  [][Blocked /\ job' # job =>
       tool' # "running" \/ ExchangesLeft' \in 0..ExchangesLeft - 1]_vars

\* setEditorData "populates the editor with the current value from the model":
\* an editor shows the value of the cell it was opened on.
EditorShowsCell ==
  editor # NoEditor => editor.shown = rows[editor.row].value

=============================================================================
