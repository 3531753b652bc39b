--------------------------- MODULE TraceConverter ---------------------------
(* What a job writes of the traces in its ring (TraceJob::serialize over      *)
(* TraceConverter): each struct of trace/iotrace_event.h becomes a protocol   *)
(* buffer message.  The converter keeps one message for each type of event    *)
(* and fills it again each time, so that whatever an event does not set is    *)
(* that of an earlier event.  The message is copied to the file at once.      *)
EXTENDS Integers, Sequences

CONSTANTS
    Pushable,              \* what may be pushed: [type, size, hdr, fields]; size is
                         \*   "exact" for its struct, "other", or "short" of a header
    MaxTraces            \* bound

VARIABLES
    pushed,
    m_ev,                \* the message of each type: m_evDesc, m_evIO, ...
    serialized,          \* the messages in the file
    m_traceCount,
    jobState             \* of the job

cvars == <<pushed, m_ev, serialized, m_traceCount, jobState>>

Flags == {"flush", "fua", "metadata", "direct", "readahead"}
\* Of the bits of the flags, those that have a name
ASSUME PushableAssumption ==
    \A t \in Pushable : t.size = "exact" /\ t.type = "io" => t.fields.flags \subseteq Flags

Operations == [R |-> "Read", W |-> "Write", D |-> "Discard"]
FsEventTypes == [create |-> "Create", delete |-> "Delete",
                 move_to |-> "MoveTo", move_from |-> "MoveFrom"]

NoHeader == [sid |-> 0, timestamp |-> 0]
NoFileId == [id |-> 0, partition |-> 0, creationDate |-> <<0, 0>>]

\* Some fields of a message over others
Over(set, message) ==
    [n \in DOMAIN set \cup DOMAIN message |-> IF n \in DOMAIN set THEN set[n] ELSE message[n]]

ConvertInit ==
    /\ pushed = <<>> /\ serialized = <<>> /\ m_traceCount = 0 /\ jobState = "RUNNING"
    /\ m_ev =
         [device_desc |-> [header |-> NoHeader, id |-> 0, name |-> "", size |-> 0, model |-> ""],
          io |-> Over([f \in Flags |-> FALSE],
                      [header |-> NoHeader, operation |-> "UnknownIoType", lba |-> 0, len |-> 0,
                       deviceId |-> 0, writeHint |-> 0, id |-> 0]),
          io_cmpl |-> [header |-> NoHeader, lba |-> 0, len |-> 0, error |-> FALSE,
                       deviceId |-> 0, refId |-> 0],
          fs_meta |-> [header |-> NoHeader, refId |-> 0, fileOffset |-> 0, fileSize |-> 0,
                       fileId |-> NoFileId],
          fs_file_name |-> [header |-> NoHeader, fileName |-> "", fileId |-> NoFileId,
                            fileParentId |-> NoFileId],
          fs_file_event |-> [header |-> NoHeader, fileId |-> NoFileId,
                             fsEventType |-> "UnknownFsEventType"]]
-----------------------------------------------------------------------------
\* A file has the partition of its event; seconds and nanoseconds are apart
FileId(id, partition) ==
    [id |-> id.id, partition |-> partition, creationDate |-> <<id.tv_sec, id.tv_nsec>>]

Mut_FlagsOf(e) == [f \in e.flags |-> TRUE]
FlagsOf(e) == [f \in Flags |-> f \in e.flags]

\* What is set of an event's message, besides the header
SetBy(type, e) ==
    CASE type = "device_desc" ->
           [id |-> e.id, name |-> e.device_name, size |-> e.device_size, model |-> e.device_model]
      [] type = "io" ->
           IF e.operation \notin DOMAIN Operations THEN <<>>
           ELSE Over(FlagsOf(e),
                     [operation |-> Operations[e.operation], lba |-> e.lba, len |-> e.len,
                      deviceId |-> e.dev_id, writeHint |-> e.write_hint, id |-> e.id])
      [] type = "io_cmpl" ->
           [lba |-> e.lba, len |-> e.len, error |-> e.error # 0, deviceId |-> e.dev_id, refId |-> e.ref_id]
      [] type = "fs_meta" ->
           [refId |-> e.ref_id, fileOffset |-> e.file_offset, fileSize |-> e.file_size,
            fileId |-> FileId(e.file_id, e.partition_id)]
      [] type = "fs_file_name" ->
           [fileName |-> e.file_name, fileId |-> FileId(e.file_id, e.partition_id),
            fileParentId |-> FileId(e.file_parent_id, e.partition_id)]
      [] type = "fs_file_event" ->
           Over(IF e.fs_event_type \notin DOMAIN FsEventTypes THEN <<>>
                ELSE [fsEventType |-> FsEventTypes[e.fs_event_type]],
                [fileId |-> FileId(e.file_id, e.partition_id)])

\* Refused before anything is set, and after the header was set
RefusedTrace(trace) == trace.size # "exact" \/ trace.type \notin DOMAIN m_ev
Unknown(trace) == trace.type = "io" /\ trace.fields.operation \notin DOMAIN Operations

convertTrace(trace) ==
    IF RefusedTrace(trace) THEN m_ev
    ELSE [m_ev EXCEPT ![trace.type] =
            Over(Over([header |-> trace.hdr], SetBy(trace.type, trace.fields)), @)]

\* A trace without a message is an error, which ends the job
serialize ==
    /\ jobState = "RUNNING" /\ Len(pushed) < MaxTraces
    /\ \E trace \in Pushable :
         /\ pushed' = Append(pushed, trace)
         /\ m_ev' = convertTrace(trace)
         /\ IF RefusedTrace(trace) \/ Unknown(trace)
            THEN jobState' = "ERROR" /\ UNCHANGED <<serialized, m_traceCount>>
            ELSE /\ serialized' = Append(serialized, m_ev'[trace.type])
                 /\ m_traceCount' = m_traceCount + 1
                 /\ UNCHANGED jobState

ConvertNext == serialize

ConvertSpec == ConvertInit /\ [][ConvertNext]_cvars
-----------------------------------------------------------------------------
Same(message, e, names) ==
    \A n \in DOMAIN names : message[names[n][1]] = e[names[n][2]]
IsFile(fileId, id, partition) ==
    fileId.id = id.id /\ fileId.partition = partition /\
    fileId.creationDate[1] = id.tv_sec /\ fileId.creationDate[2] = id.tv_nsec

\* A message says of an event what its struct says, whatever came before; for
\* a change of a file whose kind is unknown the kind is not told
Says(message, trace) ==
    LET e == trace.fields IN
    /\ message.header = trace.hdr
    /\ CASE trace.type = "device_desc" ->
              Same(message, e, <<<<"id", "id">>, <<"name", "device_name">>,
                                 <<"size", "device_size">>, <<"model", "device_model">>>>)
         [] trace.type = "io" ->
              /\ Operations[e.operation] = message.operation
              /\ {f \in Flags : message[f]} = e.flags
              /\ Same(message, e, <<<<"lba", "lba">>, <<"len", "len">>, <<"deviceId", "dev_id">>,
                                    <<"writeHint", "write_hint">>, <<"id", "id">>>>)
         [] trace.type = "io_cmpl" ->
              /\ message.error = (e.error # 0)
              /\ Same(message, e, <<<<"lba", "lba">>, <<"len", "len">>, <<"deviceId", "dev_id">>,
                                    <<"refId", "ref_id">>>>)
         [] trace.type = "fs_meta" ->
              /\ Same(message, e, <<<<"refId", "ref_id">>, <<"fileOffset", "file_offset">>,
                                    <<"fileSize", "file_size">>>>)
              /\ IsFile(message.fileId, e.file_id, e.partition_id)
         [] trace.type = "fs_file_name" ->
              /\ message.fileName = e.file_name
              /\ IsFile(message.fileId, e.file_id, e.partition_id)
              /\ IsFile(message.fileParentId, e.file_parent_id, e.partition_id)
         [] trace.type = "fs_file_event" ->
              /\ IsFile(message.fileId, e.file_id, e.partition_id)
              /\ e.fs_event_type \in DOMAIN FsEventTypes =>
                   FsEventTypes[e.fs_event_type] = message.fsEventType

(* The file holds the traces that were pushed, in their order and each as it  *)
(* was, although one message stands for all traces of a type; the count of    *)
(* the job is that of the file, and only the last trace may be missing.       *)
ConvertedTrue ==
    /\ m_traceCount = Len(serialized)
    /\ Len(pushed) = Len(serialized) + IF jobState = "ERROR" THEN 1 ELSE 0
    /\ \A n \in DOMAIN serialized : Says(serialized[n], pushed[n])
=============================================================================
