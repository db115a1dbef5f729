------------------------------ MODULE MediaLib ------------------------------
(***************************************************************************)
(* The media library of the server (server/medialib.c).  At start the main *)
(* thread scans the media directory and gives every directory that holds a *)
(* channel an identifier and a context.  Then one thread per channel reads *)
(* the channel's files one after another, in portions paced by tokens.     *)
(*                                                                         *)
(* The channels share one thing: the process's table of file descriptors.  *)
(* open returns the lowest free number, so the number a thread has just    *)
(* closed may belong to another channel an instant later.  close and open  *)
(* are therefore steps of their own.                                       *)
(*                                                                         *)
(* What a system call may answer is left open: a file may fail to open or  *)
(* to be read at any time, and be all right again later.                   *)
(***************************************************************************)
EXTENDS Integers, Sequences

CONSTANTS
  Files,       \* the media directory: of each directory, the lengths of its files
  MAXCHNID,    \* largest index of channel[]
  IdMod,       \* 256: the values of a chnid_t (uint8_t) are 0 .. IdMod-1
  ReadSize     \* bytes thr_channel_snder asks for

MINCHNID == 1
ChnId == MINCHNID .. MAXCHNID
Dir == 1 .. Len(Files)
Fd == 1 .. MAXCHNID    \* the descriptors used for files; no thread needs a second
NoFd == -1

ASSUME FilesAssumption ==
  /\ Files \in Seq(Seq(Nat))
  /\ \A d \in Dir : Files[d] # <<>>
(* The last conjunct is a bound: curr_id does not wrap.                     *)
ASSUME IdAssumption ==
  /\ MAXCHNID \in Nat \ {0} /\ IdMod \in Nat /\ MAXCHNID < IdMod
  /\ Len(Files) + 1 < IdMod
ASSUME ReadSizeAssumption == ReadSize \in Nat \ {0}

(* gl_pathc of a directory; its files and their lengths.                    *)
Count(d) == Len(Files[d])
File == UNION {[dir : {d}, pos : 0 .. Count(d) - 1] : d \in Dir}
FileLength(f) == Files[f.dir][f.pos + 1]

NoFile == [dir |-> 0, pos |-> 0]
NoContext == [dir |-> 0, pos |-> 0, fd |-> NoFd, offset |-> 0]
NoSegment == [file |-> NoFile, from |-> 0, len |-> 0]

VARIABLES
  process,     \* "running", "exited", or "crashed" by a wild access
  mpc,         \* where the main thread is
  current,     \* mlib_getchnlist: the directory it comes to next
  curr_id,     \* path2entry: the next identifier
  channel,     \* identifier -> context: dir, pos, fd, offset
  chnlist,     \* the list of channels: their identifiers
  fds,         \* the process's descriptors -> the file each stands for
  pc,          \* identifier -> where the channel's thread is
  tbfsize,     \* identifier -> tokens in hand
  len,         \* identifier -> the result of pread
  tried,       \* identifier -> i, the loop variable of open_next
  segment,     \* identifier -> the part of a file last read into the packet
  trouble      \* (history) identifier -> a file failed since segment was read

scanVars == <<current, curr_id, chnlist>>
readVars == <<tbfsize, len, tried, segment, trouble>>
mediaVars == <<process, mpc, scanVars, channel, fds, pc, readVars>>

MediaInit ==
  /\ process = "running" /\ mpc = "scan"
  /\ current = 1 /\ curr_id = MINCHNID /\ chnlist = <<>>
  /\ channel = [c \in ChnId |-> NoContext]
  /\ fds = [f \in Fd |-> NoFile]
  /\ pc = [c \in ChnId |-> "none"]
  /\ tbfsize = [c \in ChnId |-> 0]
  /\ len = [c \in ChnId |-> 0]
  /\ tried = [c \in ChnId |-> 0]
  /\ segment = [c \in ChnId |-> NoSegment]
  /\ trouble = [c \in ChnId |-> FALSE]

Running == process = "running"

(* open: the lowest free number.                                            *)
LowestFree(f) == fds[f] = NoFile /\ \A g \in Fd : g < f => fds[g] # NoFile

(* What close leaves of the table; a number that is not open is an error    *)
(* that changes nothing.                                                    *)
Closed(table, fd) == [f \in Fd |-> IF f = fd THEN NoFile ELSE table[f]]

-----------------------------------------------------------------------------
(* mlib_getchnlist and path2entry, on the main thread                       *)

Scanning == Running /\ mpc = "scan" /\ current \in Dir

(* glob finds nothing, malloc fails, or mytbf_init, which cannot start its  *)
(* timer threads or has no bucket left: the process exits.                  *)
ScanFails ==
  /\ Running /\ mpc = "scan"
  /\ process' = "exited"
  /\ UNCHANGED <<mpc, scanVars, channel, fds, pc, readVars>>

(* No desc.txt, an empty one, no memory, or a first file that cannot be     *)
(* opened: not a channel.                                                   *)
NotAChannel ==
  /\ Scanning
  /\ current' = current + 1
  /\ UNCHANGED <<process, mpc, curr_id, chnlist, channel, fds, pc, readVars>>

(* A description but no mp3 file: an identifier is used up.                 *)
NoMp3 ==
  /\ Scanning
  /\ current' = current + 1
  /\ curr_id' = (curr_id + 1) % IdMod
  /\ UNCHANGED <<process, mpc, chnlist, channel, fds, pc, readVars>>

(* Mutant of EnterChannel: a further channel gets the identifier again.     *)
EnterChannelSameId ==
  /\ Scanning
  /\ current' = current + 1
  /\ curr_id' = IF chnlist = <<>> THEN curr_id ELSE curr_id + 1
  /\ \E f \in Fd :
       /\ LowestFree(f)
       /\ fds' = [fds EXCEPT ![f] = [dir |-> current, pos |-> 0]]
       /\ channel' = [channel EXCEPT ![curr_id] =
                        [dir |-> current, pos |-> 0, fd |-> f, offset |-> 0]]
  /\ chnlist' = Append(chnlist, curr_id)
  /\ UNCHANGED <<process, mpc, pc, readVars>>

(* A channel: its context is copied into channel[] and listed.              *)
EnterChannel ==
  /\ Scanning /\ curr_id \in ChnId
  /\ current' = current + 1
  /\ curr_id' = (curr_id + 1) % IdMod
  /\ \E f \in Fd :
       /\ LowestFree(f)
       /\ fds' = [fds EXCEPT ![f] = [dir |-> current, pos |-> 0]]
       /\ channel' = [channel EXCEPT ![curr_id] =
                        [dir |-> current, pos |-> 0, fd |-> f, offset |-> 0]]
  /\ chnlist' = Append(chnlist, curr_id)
  /\ UNCHANGED <<process, mpc, pc, readVars>>

(* The identifiers are used up: the context is copied past the end of       *)
(* channel[].                                                               *)
EnterPastEnd ==
  /\ Scanning /\ curr_id \notin ChnId
  /\ process' = "crashed"
  /\ UNCHANGED <<mpc, scanVars, channel, fds, pc, readVars>>

ScanDone ==
  /\ Running /\ mpc = "scan" /\ current = Len(Files) + 1
  /\ mpc' = "list"
  /\ UNCHANGED <<process, scanVars, channel, fds, pc, readVars>>

Scan == ScanFails \/ NotAChannel \/ NoMp3 \/ EnterChannel \/ EnterPastEnd \/ ScanDone

-----------------------------------------------------------------------------
(* mlib_readchn, called by the thread of channel c                          *)

(* mytbf_fetchtoken gives some of the tokens asked for (see TokenBucket).   *)
FetchTokens(c) ==
  /\ Running /\ pc[c] = "fetch"
  /\ \E n \in 1 .. ReadSize : tbfsize' = [tbfsize EXCEPT ![c] = n]
  /\ pc' = [pc EXCEPT ![c] = "read"]
  /\ UNCHANGED <<process, mpc, scanVars, channel, fds, len, tried, segment, trouble>>

(* The file pread reads for channel c: whatever its descriptor stands for.  *)
OpenFile(c) == IF channel[c].fd \in Fd THEN fds[channel[c].fd] ELSE NoFile

(* What is left of it.                                                      *)
Rest(c) == FileLength(OpenFile(c)) - channel[c].offset

(* pread returns bytes; tokens that were not needed go back.                *)
ReadData(c) ==
  /\ Running /\ pc[c] = "read" /\ OpenFile(c) # NoFile /\ Rest(c) > 0
  /\ LET n == IF Rest(c) < tbfsize[c] THEN Rest(c) ELSE tbfsize[c]
     IN  /\ len' = [len EXCEPT ![c] = n]
         /\ segment' = [segment EXCEPT ![c] =
                          [file |-> OpenFile(c), from |-> channel[c].offset, len |-> n]]
         /\ channel' = [channel EXCEPT ![c].offset = @ + n]
  /\ trouble' = [trouble EXCEPT ![c] = FALSE]
  /\ tbfsize' = [tbfsize EXCEPT ![c] = 0]
  /\ pc' = [pc EXCEPT ![c] = "send"]
  /\ UNCHANGED <<process, mpc, scanVars, fds, tried>>

(* Mutant of ReadEnd: the end of the file is only reported.                 *)
ReadEndStays(c) ==
  /\ Running /\ pc[c] = "read" /\ OpenFile(c) # NoFile /\ Rest(c) <= 0
  /\ len' = [len EXCEPT ![c] = 0]
  /\ tbfsize' = [tbfsize EXCEPT ![c] = 0]
  /\ pc' = [pc EXCEPT ![c] = "send"]
  /\ UNCHANGED <<process, mpc, scanVars, channel, fds, tried, segment, trouble>>

(* pread returns 0, the end of the file: on to open_next.                   *)
ReadEnd(c) ==
  /\ Running /\ pc[c] = "read" /\ OpenFile(c) # NoFile /\ Rest(c) <= 0
  /\ len' = [len EXCEPT ![c] = 0]
  /\ tried' = [tried EXCEPT ![c] = 0]
  /\ pc' = [pc EXCEPT ![c] = "next"]
  /\ UNCHANGED <<process, mpc, scanVars, channel, fds, tbfsize, segment, trouble>>

(* pread fails, as it must without a descriptor: on to open_next.           *)
ReadFails(c) ==
  /\ Running /\ pc[c] = "read"
  /\ len' = [len EXCEPT ![c] = -1]
  /\ tried' = [tried EXCEPT ![c] = 0]
  /\ trouble' = [trouble EXCEPT ![c] = TRUE]
  /\ pc' = [pc EXCEPT ![c] = "next"]
  /\ UNCHANGED <<process, mpc, scanVars, channel, fds, tbfsize, segment>>

(* Mutant of NextFile: the position runs one past the end of the list.      *)
NextFilePastEnd(c) ==
  /\ Running /\ pc[c] = "next"
  /\ channel' = [channel EXCEPT ![c].pos = IF @ = Count(channel[c].dir) THEN 0 ELSE @ + 1]
  /\ fds' = Closed(fds, channel[c].fd)
  /\ pc' = [pc EXCEPT ![c] = "open"]
  /\ UNCHANGED <<process, mpc, scanVars, readVars>>

(* open_next: the position moves on, around the list, and the descriptor is *)
(* closed.                                                                  *)
NextFile(c) ==
  /\ Running /\ pc[c] = "next"
  /\ channel' = [channel EXCEPT ![c].pos = IF @ + 1 = Count(channel[c].dir) THEN 0 ELSE @ + 1]
  /\ fds' = Closed(fds, channel[c].fd)
  /\ pc' = [pc EXCEPT ![c] = "open"]
  /\ UNCHANGED <<process, mpc, scanVars, readVars>>

(* mlib_readchn goes on after open_next: after an error it reads again, at  *)
(* the end of a file it returns 0 and gives all tokens back.                *)
AfterOpenNext(c) ==
  /\ pc' = [pc EXCEPT ![c] = IF len[c] < 0 THEN "read" ELSE "send"]
  /\ tbfsize' = IF len[c] < 0 THEN tbfsize ELSE [tbfsize EXCEPT ![c] = 0]

(* Mutant of OpenOk: the offset is left where it was.                       *)
OpenOkKeepsOffset(c) ==
  /\ Running /\ pc[c] = "open"
  /\ \E f \in Fd :
       /\ LowestFree(f)
       /\ fds' = [fds EXCEPT ![f] = [dir |-> channel[c].dir, pos |-> channel[c].pos]]
       /\ channel' = [channel EXCEPT ![c].fd = f]
  /\ AfterOpenNext(c)
  /\ UNCHANGED <<process, mpc, scanVars, len, tried, segment, trouble>>

(* The next file is opened, and read from its start.                        *)
OpenOk(c) ==
  /\ Running /\ pc[c] = "open"
  /\ \E f \in Fd :
       /\ LowestFree(f)
       /\ fds' = [fds EXCEPT ![f] = [dir |-> channel[c].dir, pos |-> channel[c].pos]]
       /\ channel' = [channel EXCEPT ![c].fd = f, ![c].offset = 0]
  /\ AfterOpenNext(c)
  /\ UNCHANGED <<process, mpc, scanVars, len, tried, segment, trouble>>

(* The log line of a failed open names gl_pathv[chnid], not [pos].  Behind  *)
(* the paths comes a NULL, and then the end of the array: syslog may print  *)
(* what lies there, or the process crashes.                                 *)
WildPath(c) == c > Count(channel[c].dir)

Logged(c) ==
  \/ UNCHANGED process
  \/ WildPath(c) /\ process' = "crashed"

(* Mutant of OpenFails: the result of a failed open is not stored.          *)
OpenFailsKeepsFd(c) ==
  /\ Running /\ pc[c] = "open"
  /\ trouble' = [trouble EXCEPT ![c] = TRUE]
  /\ tried' = [tried EXCEPT ![c] = @ + 1]
  /\ IF tried[c] + 1 < Count(channel[c].dir)
       THEN pc' = [pc EXCEPT ![c] = "next"] /\ UNCHANGED tbfsize
       ELSE AfterOpenNext(c)
  /\ Logged(c)
  /\ UNCHANGED <<mpc, scanVars, channel, fds, len, segment>>

(* It cannot be opened: open_next tries as many files as there are.         *)
OpenFails(c) ==
  /\ Running /\ pc[c] = "open"
  /\ channel' = [channel EXCEPT ![c].fd = NoFd]
  /\ trouble' = [trouble EXCEPT ![c] = TRUE]
  /\ tried' = [tried EXCEPT ![c] = @ + 1]
  /\ IF tried[c] + 1 < Count(channel[c].dir)
       THEN pc' = [pc EXCEPT ![c] = "next"] /\ UNCHANGED tbfsize
       ELSE AfterOpenNext(c)
  /\ Logged(c)
  /\ UNCHANGED <<mpc, scanVars, fds, len, segment>>

ReadChannel(c) == FetchTokens(c) \/ ReadData(c) \/ ReadEnd(c) \/ ReadFails(c)
                  \/ NextFile(c) \/ OpenOk(c) \/ OpenFails(c)

-----------------------------------------------------------------------------
(* Identifier c has been given to a directory.                              *)
Used(c) == channel[c].dir \in Dir

Segment == [file : File \cup {NoFile}, from : Nat, len : Nat]

MediaTypeOK ==
  /\ process \in {"running", "exited", "crashed"}
  /\ mpc \in {"scan", "list", "create", "pause"}
  /\ current \in 1 .. Len(Files) + 1
  /\ curr_id \in 1 .. IdMod - 1
  /\ chnlist \in Seq(ChnId)
  /\ channel \in [ChnId -> [dir : Dir \cup {0}, pos : Nat, fd : Fd \cup {NoFd}, offset : Nat]]
  /\ \A c \in ChnId : Used(c) => channel[c].pos < Count(channel[c].dir)
  /\ fds \in [Fd -> File \cup {NoFile}]
  /\ pc \in [ChnId -> {"none", "start", "fetch", "read", "next", "open", "send", "ended"}]
  /\ tbfsize \in [ChnId -> 0 .. ReadSize]
  /\ len \in [ChnId -> Int]
  /\ tried \in [ChnId -> Nat]
  /\ segment \in [ChnId -> Segment]
  /\ trouble \in [ChnId -> BOOLEAN]

(* The list that is sent to the clients and channel[] agree: each listed    *)
(* identifier is in range, is listed once and has a context of its own      *)
(* directory, and nothing else has; directories that failed half way leave  *)
(* no trace in either (medialib.c:82,95-96,135-138).                        *)
ListAgrees ==
  /\ \A i, j \in 1 .. Len(chnlist) :
       i < j => /\ chnlist[i] < chnlist[j]
                /\ channel[chnlist[i]].dir < channel[chnlist[j]].dir
  /\ \A c \in ChnId : Used(c) <=> \E i \in 1 .. Len(chnlist) : chnlist[i] = c

(* A channel's descriptor is its own: it stands for the file at the         *)
(* channel's position, whatever the other threads have opened and closed in *)
(* the meantime, and no descriptor is left open without a channel           *)
(* (medialib.c:168-172).  Between close and open the number is stale.       *)
OwnsDescriptor(c) ==
  channel[c].fd \in Fd =>
    fds[channel[c].fd] = [dir |-> channel[c].dir, pos |-> channel[c].pos]

DescriptorsOwned ==
  /\ \A c \in ChnId : pc[c] # "open" => OwnsDescriptor(c)
  /\ \A f \in Fd : fds[f] # NoFile =>
       \E c \in ChnId : channel[c].fd = f /\ pc[c] # "open"

(* File g is the next of its directory after f, empty ones aside.           *)
NextAfter(f, g) ==
  \E k \in 1 .. Count(f.dir) :
    /\ g = [dir |-> f.dir, pos |-> (f.pos + k) % Count(f.dir)]
    /\ \A j \in 1 .. k - 1 : Files[f.dir][((f.pos + j) % Count(f.dir)) + 1] = 0

(* The part of a file s of channel c comes next after what was read before. *)
Follows(c, s) ==
  LET last == segment[c]
      file == last.file
  IN  /\ s.file.dir = channel[c].dir
      /\ \/ s.file = file /\ s.from = last.from + last.len /\ ~ trouble[c]
         \/ s.from = 0 /\ (trouble[c] \/ file = NoFile)
         \/ /\ s.from = 0 /\ last.from + last.len = FileLength(file)
            /\ NextAfter(file, s.file)

(* A channel plays its files one after another, each from its start to its  *)
(* end and without a gap; only where a file failed may the rest of it be    *)
(* left out (medialib.c:161-184,197-217).                                   *)
PlaysInOrder ==
  [][\A c \in ChnId : segment'[c] # segment[c] => Follows(c, segment'[c])]_mediaVars
=============================================================================
