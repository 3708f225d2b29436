---------------------------- MODULE LogcatService ---------------------------
(***************************************************************************)
(* The logcat service of a device: class Logcat of mobly/controllers/      *)
(* android_device_lib/services/logcat.py, the adb process it starts, which  *)
(* appends what the device logs to a file, and the file object from which  *)
(* excerpts are made.                                                      *)
(*                                                                         *)
(* The device logs the lines 1, 2, ...; a device time is the number of     *)
(* lines logged by then.  One thread calls the service, the device and the  *)
(* process go on meanwhile.  A process that could not be killed is not      *)
(* followed after _stop has dropped it.                                    *)
(***************************************************************************)
EXTENDS Integers, Sequences, SequencesExt

CONSTANTS
  MaxLines,   \* bound: lines the device logs
  MaxWritten  \* bound: lines in a file

ASSUME LogcatAssumption == MaxLines \in Nat /\ MaxWritten \in Nat

(* The file the service names, and one the user's config names. *)
Paths == {"generated", "custom"}

None == "none"

VARIABLES
  logged,     \* lines logged by the device
  cleared,    \* lines cleared from its buffer
  pc,         \* "idle", "opening" within start, "dating" within pause
  config,     \* _config
  path,       \* adb_logcat_file_path
  processor,  \* the file _processor reads
  process,    \* _adb_logcat_process
  obj,        \* _adb_logcat_file_obj and its position
  last,       \* _last_connection_time
  files,      \* the lines of each file that exists
  written,    \* history: what the processes wrote since start, or since a
              \* resume that knew no time
  owed,       \* history: the lines they have to write
  excerpt     \* history: where start opened the file, and the lines of the
              \* excerpts since

device == <<logged, cleared>>
history == <<written, owed, excerpt>>
serviceVars == <<device, pc, config, path, processor, process, obj, last, files, history>>

(* since: the argument of -T; the process is on the device once attached,     *)
(* next is the line it writes next.                                          *)
NoProcess == [state |-> None, since |-> 0, next |-> 1]
NoFile == [path |-> None, at |-> 0]
NoExcerpt == [on |-> FALSE, from |-> 0, taken |-> <<>>]

NoTime == 0 - 2   \* _last_connection_time is None
Recent == 0 - 1   \* -T 1: the last line and what follows

IsAlive == process # NoProcess

Exists(p) == p \in DOMAIN files

-----------------------------------------------------------------------------
ServiceInit ==
  /\ logged = 0 /\ cleared = 0
  /\ pc = "idle"
  /\ config \in [path : {None, "custom"}, clear : BOOLEAN]
  /\ path = None /\ processor = None
  /\ process = NoProcess /\ obj = NoFile /\ last = NoTime
  /\ files = <<>>
  /\ written = <<>> /\ owed = {} /\ excerpt = NoExcerpt

-----------------------------------------------------------------------------
(* The device, adb and the process *)

(* A line is owed if a process is there to write it, or if pause has noted    *)
(* the time after which resume asks for it.                                  *)
Followed ==
  \/ process.state = "attached"
  \/ process.state = "starting" /\ process.since # Recent
  \/ ~IsAlive /\ pc = "idle" /\ last # NoTime

DeviceLogs ==
  /\ logged < MaxLines
  /\ logged' = logged + 1
  /\ owed' = IF Followed THEN owed \cup {logged + 1} ELSE owed
  /\ UNCHANGED <<cleared, pc, config, path, processor, process, obj, last, files,
                 written, excerpt>>

(* The shell opens the file for appending before it runs adb. *)
ShellOpens ==
  /\ IsAlive /\ process.state # "ended" /\ ~Exists(path)
  /\ files' = [p \in DOMAIN files \cup {path} |-> IF p = path THEN <<>> ELSE files[p]]
  /\ UNCHANGED <<device, pc, config, path, processor, process, obj, last, history>>

(* logcat -T on the device: the first line it prints. *)
FirstLine(since) ==
  IF since = Recent THEN IF logged > cleared THEN logged ELSE logged + 1
  ELSE (IF since > cleared THEN since ELSE cleared) + 1

Attach ==
  /\ process.state = "starting" /\ Exists(path)
  /\ process' = [process EXCEPT !.state = "attached", !.next = FirstLine(process.since)]
  /\ owed' = owed \cup FirstLine(process.since)..logged
  /\ UNCHANGED <<device, pc, config, path, processor, obj, last, files, written, excerpt>>

ProcessWrites ==
  /\ process.state = "attached" /\ process.next <= logged
  /\ Len(files[path]) < MaxWritten
  /\ files' = [files EXCEPT ![path] = Append(@, process.next)]
  /\ written' = Append(written, process.next)
  /\ process' = [process EXCEPT !.next = @ + 1]
  /\ UNCHANGED <<device, pc, config, path, processor, obj, last, owed, excerpt>>

(* The connection is lost; the service does not notice. *)
AdbDies ==
  /\ process.state \in {"starting", "attached"}
  /\ process' = [process EXCEPT !.state = "ended"]
  /\ owed' = owed \cap ToSet(written)
  /\ UNCHANGED <<device, pc, config, path, processor, obj, last, files, written, excerpt>>

-----------------------------------------------------------------------------
(* Parts of the methods *)

(* Mutant: the file object is kept. *)
CloseNot == UNCHANGED obj /\ excerpt' = NoExcerpt

(* _close_logcat_file *)
Close == obj' = NoFile /\ excerpt' = NoExcerpt

TimeArgument == IF last = NoTime THEN Recent ELSE last

(* Mutant: resume clears the log too. *)
ClearedAlways(op) == IF config.clear THEN logged ELSE cleared

Cleared(op) == IF op = "start" /\ config.clear THEN logged ELSE cleared

LogPath ==
  CASE config.path # None -> config.path
    [] path # None -> path
    [] OTHER -> "generated"

(* _start: the file the process is to append to and the queries to read. *)
Locate ==
  /\ path' = LogPath /\ processor' = LogPath
  /\ IF config.path # None THEN Close ELSE UNCHANGED <<obj, excerpt>>

(* _start: the process is started, with the time noted by pause if any. *)
StartProcess(op) ==
  /\ Locate
  /\ process' = [state |-> "starting", since |-> TimeArgument, next |-> 1]
  /\ last' = NoTime
  /\ cleared' = Cleared(op)
  /\ IF op = "start" \/ TimeArgument = Recent
     THEN written' = <<>> /\ owed' = {}
     ELSE UNCHANGED <<written, owed>>
  /\ UNCHANGED <<logged, config, files>>

(* _stop: what the process has not written yet is lost. *)
StopProcess ==
  /\ process' = NoProcess
  /\ last' = IF IsAlive THEN NoTime ELSE last
  /\ owed' = IF IsAlive THEN owed \cap ToSet(written) ELSE owed
  /\ UNCHANGED <<device, config, path, processor, files, written>>

-----------------------------------------------------------------------------
(* The methods *)

(* start raises, and does nothing more, if clearing the log fails. *)
Start ==
  /\ pc = "idle" /\ ~IsAlive
  /\ StartProcess("start")
  /\ pc' = "opening"

(* start or resume raises in _start: enabling logpersist, creating the         *)
(* directory or starting the process fails.  The file is another by the      *)
(* second, the time noted by pause is gone by the third; what start cleared  *)
(* is lost.                                                                  *)
StartRaises(op, at) ==
  /\ pc = "idle" /\ ~IsAlive
  /\ IF at = "logpersist" THEN UNCHANGED <<path, processor, obj, excerpt>> ELSE Locate
  /\ last' = IF at = "process" THEN NoTime ELSE last
  /\ cleared' = Cleared(op)
  /\ owed' = {n \in owed : n \in ToSet(written) \/ (last' # NoTime /\ cleared' < n)}
  /\ UNCHANGED <<logged, pc, config, process, files, written>>

(* _open_logcat_file *)
Opened == IF obj = NoFile THEN [path |-> path, at |-> Len(files[path])] ELSE obj

(* start returns: the file object is there, or the file and it is opened at   *)
(* its end.                                                                  *)
OpenFile ==
  /\ pc = "opening" /\ (obj # NoFile \/ Exists(path))
  /\ obj' = Opened
  /\ excerpt' = IF excerpt.on THEN excerpt
                ELSE [on |-> TRUE, from |-> Len(files[path]), taken |-> <<>>]
  /\ pc' = "idle"
  /\ UNCHANGED <<device, config, path, processor, process, last, files, written, owed>>

(* start raises: the file was not created in time.  The process stays. *)
OpenTimesOut ==
  /\ pc = "opening" /\ obj = NoFile /\ ~Exists(path)
  /\ pc' = "idle"
  /\ UNCHANGED <<device, config, path, processor, process, obj, last, files, history>>

Stop ==
  /\ pc = "idle"
  /\ Close
  /\ StopProcess
  /\ UNCHANGED pc

Pause ==
  /\ pc = "idle"
  /\ StopProcess
  /\ pc' = "dating"
  /\ UNCHANGED <<obj, excerpt>>

(* pause returns: it has the device's time, in place of the one it had if it  *)
(* was paused already, or asking for it failed.                              *)
NoteTime(fails) ==
  /\ pc = "dating"
  /\ last' = IF fails THEN last ELSE logged
  /\ owed' = IF fails THEN owed ELSE owed \cap ToSet(written)
  /\ pc' = "idle"
  /\ UNCHANGED <<device, config, path, processor, process, obj, files, written, excerpt>>

Resume ==
  /\ pc = "idle" /\ ~IsAlive
  /\ StartProcess("resume")
  /\ UNCHANGED pc

UpdateConfig(new) ==
  /\ pc = "idle" /\ ~IsAlive /\ new # config
  /\ config' = new
  /\ processor' = None
  /\ UNCHANGED <<device, pc, path, process, obj, last, files, history>>

(* A query creates the processor that update_config dropped. *)
Query ==
  /\ pc = "idle" /\ processor = None /\ path # None
  /\ processor' = path
  /\ UNCHANGED <<device, pc, config, path, process, obj, last, files, history>>

(* create_output_excerpts reads to the end of the file. *)
CreateOutputExcerpts ==
  /\ pc = "idle" /\ obj # NoFile /\ obj.at < Len(files[obj.path])
  /\ obj' = [obj EXCEPT !.at = Len(files[obj.path])]
  /\ excerpt' = [excerpt EXCEPT
       !.taken = @ \o SubSeq(files[obj.path], obj.at + 1, Len(files[obj.path]))]
  /\ UNCHANGED <<device, pc, config, path, processor, process, last, files, written, owed>>

-----------------------------------------------------------------------------
ServiceNext ==
  \/ DeviceLogs
  \/ ShellOpens
  \/ Attach
  \/ ProcessWrites
  \/ AdbDies
  \/ Start
  \/ \E op \in {"start", "resume"}, at \in {"logpersist", "directory", "process"} :
       StartRaises(op, at)
  \/ OpenFile
  \/ OpenTimesOut
  \/ Stop
  \/ Pause
  \/ \E fails \in BOOLEAN : NoteTime(fails)
  \/ Resume
  \/ \E new \in [path : {None, "custom"}, clear : BOOLEAN] : UpdateConfig(new)
  \/ Query
  \/ CreateOutputExcerpts

ServiceSpec == ServiceInit /\ [][ServiceNext]_serviceVars

-----------------------------------------------------------------------------
(* Properties *)

(* pause and resume: a process that has caught up has written, once each and  *)
(* in order, every line logged while a process was on the device and alive   *)
(* till it wrote it, and every line logged between the time pause noted last  *)
(* and the next process.  Lines between the end of the process and that time are *)
(* not among them, nor any when the time could not be had.                   *)
PauseKeepsLines ==
  /\ \A i, j \in DOMAIN written : i < j => written[i] < written[j]
  /\ process.state = "attached" /\ process.next > logged => owed \subseteq ToSet(written)

(* create_output_excerpts: the excerpts made since start opened the file are  *)
(* what the file got since, each line once, and the file is the one the      *)
(* process writes and the queries read.                                      *)
ExcerptsPartition ==
  /\ obj # NoFile => /\ excerpt.on /\ obj.path = path
                     /\ excerpt.taken = SubSeq(files[obj.path], excerpt.from + 1, obj.at)
  /\ IsAlive => processor = path
=============================================================================
