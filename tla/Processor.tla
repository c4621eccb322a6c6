------------------------------ MODULE Processor ------------------------------
(***************************************************************************)
(* whisperproc2: the thread of class Processor, which composes the part    *)
(* files that savers record in a directory into time range files, and the  *)
(* file system it works on.  A crash can come between any two operations   *)
(* on files; what is in the file system survives it.                       *)
(*                                                                         *)
(* A part is the media of one unit of time, [ts, ts + 1); a saver either   *)
(* continues with the next unit or starts a new chunk.                     *)
(***************************************************************************)
EXTENDS Integers, FiniteSets

CONSTANTS
  Dirs,         \* the directories with a media info file
  OutputMs,     \* output_media_ms_
  MaxDelay,     \* max_delay_ms_
  Lengths,      \* what JoinFilesInto...(), of the media library, may return
  LastTs,       \* bound: savers end before this time
  MaxTime,      \* bound: the clock stops here
  MaxStarts     \* bound: times the program is started

ASSUME ProcessorAssumption ==
  /\ OutputMs \in Nat /\ MaxDelay \in Nat
  /\ Lengths \subseteq Nat \ {0}
  /\ LastTs \in Nat /\ MaxTime \in Nat
  /\ MaxStarts \in Nat

VARIABLES
  now,
  parts,        \* the part files in each directory
  media,        \* the files in its media/ directory
  thread,       \* the thread: where it is, and its local variables
  stopping,     \* stop_event_
  starts,       \* how often the program was started
  recorded,     \* history: all parts ever saved
  empty,        \* history: parts consumed for an output of 0 ms
  disturbed     \* history: was there a crash or a failed composition?

pvars == <<now, parts, media, thread, stopping, starts, recorded, empty, disturbed>>

Part == [ts : Nat, new : BOOLEAN]

\* A time range file: its name, [begin, end], and what is in it, with the length
\* of its media.  'whole' is FALSE while it is being written, and after a crash
\* in the middle of that.
Output == [begin : Nat, end : Nat, has : SUBSET Part, ms : Nat, whole : BOOLEAN]

\* Where the thread is: not running, before listing the directories, between
\* two directories, before ProcessDirectoryOnce() or inside it, waiting for
\* the next scan.
Places == {"off", "list", "dirs", "once", "join", "joining", "rename", "consume", "wait"}

Idle == [pc |-> "off", todo |-> {}, dir |-> "none", sel |-> {}, next |-> 0]

Init ==
  /\ now = 1
  /\ parts = [d \in Dirs |-> {}]
  /\ media = [d \in Dirs |-> {}]
  /\ thread = Idle
  /\ stopping = FALSE
  /\ starts = 0
  /\ recorded = [d \in Dirs |-> {}]
  /\ empty = [d \in Dirs |-> {}]
  /\ disturbed = FALSE

-----------------------------------------------------------------------------
(* GetProcessableFiles.                                                    *)

IsFirst(p, S) == p \in S /\ \A q \in S : p.ts <= q.ts
IsLast(p, S)  == p \in S /\ \A q \in S : q.ts <= p.ts
First(S) == CHOOSE p \in S : IsFirst(p, S)
Last(S)  == CHOOSE p \in S : IsLast(p, S)

\* Deviation: the age of the files does not matter.
Processable_Enough(S) == S # {} /\ Last(S).ts - First(S).ts > OutputMs

\* Enough files were found, or the files are too old.
Processable(S) ==
  /\ S # {}
  /\ \/ Last(S).ts - First(S).ts > OutputMs
     \/ now - Last(S).ts > MaxDelay

\* Deviation: chunks are joined.
Ends_SameChunk(p, S) == p # First(S) /\ p.ts - First(S).ts > OutputMs

\* The files the selection stops at: a new chunk, or enough was gathered.
Ends(p, S) == p # First(S) /\ (p.new \/ p.ts - First(S).ts > OutputMs)

Selection(S) == {p \in S : \A q \in S : Ends(q, S) => p.ts < q.ts}

\* Deviations: the last file in the directory counts; no file is -1.
NextTs_OfLast(S) == IF Last(S).new THEN 0 ELSE Last(S).ts
NextTs_Negative(S) == IF S = Selection(S) THEN 0 - 1 ELSE First(S \ Selection(S)).ts

\* out_next_file_ts: of the file the selection stops at or, when it takes all
\* files, of the last one it takes; 0 for a new chunk.
NextTs(S) ==
  LET rest == S \ Selection(S)
      p == IF rest = {} THEN Last(S) ELSE First(rest)
  IN  IF p.new THEN 0 ELSE p.ts

-----------------------------------------------------------------------------
(* The thread.                                                             *)

Goto(pc) == thread' = [thread EXCEPT !.pc = pc]

Here == thread.dir
Begin == First(thread.sel).ts
Named(o, begin, end) == o.begin = begin /\ o.end = end

ListDirs ==
  /\ thread.pc = "list"
  /\ thread' = [thread EXCEPT !.pc = "dirs", !.todo = Dirs]
  /\ UNCHANGED <<now, parts, media, stopping, starts, recorded, empty, disturbed>>

NextDir ==
  /\ thread.pc = "dirs"
  /\ \/ \E d \in thread.todo :
          thread' = [thread EXCEPT !.pc = "once", !.todo = @ \ {d}, !.dir = d]
     \/ thread.todo = {} /\ Goto("wait")
  /\ UNCHANGED <<now, parts, media, stopping, starts, recorded, empty, disturbed>>

\* The loop of ProcessDirectory, and the choice of files.
Choose ==
  /\ thread.pc = "once"
  /\ \/ /\ stopping \/ ~Processable(parts[Here])
        /\ Goto("dirs")
     \/ /\ ~stopping /\ Processable(parts[Here])
        /\ thread' = [thread EXCEPT !.pc = "join", !.sel = Selection(parts[Here]),
                                    !.next = NextTs(parts[Here])]
  /\ UNCHANGED <<now, parts, media, stopping, starts, recorded, empty, disturbed>>

Without(begin, end) == {o \in media[Here] : ~Named(o, begin, end)}

\* JoinFilesInto...() opens its output, in the place of a file of that name,
JoinBegins ==
  /\ thread.pc = "join"
  /\ media' = [media EXCEPT ![Here] = Without(Begin, thread.next) \cup
        {[begin |-> Begin, end |-> thread.next, has |-> {}, ms |-> 0,
          whole |-> FALSE]}]
  /\ Goto("joining")
  /\ UNCHANGED <<now, parts, stopping, starts, recorded, empty, disturbed>>

\* and returns its length, which is what the media says it is: it may be shorter
\* or longer than the time in which the parts were recorded,
JoinEnds ==
  /\ thread.pc = "joining"
  /\ \E ms \in Lengths :
       media' = [media EXCEPT ![Here] = Without(Begin, thread.next) \cup
         {[begin |-> Begin, end |-> thread.next, has |-> thread.sel, ms |-> ms,
           whole |-> TRUE]}]
  /\ Goto(IF thread.next = 0 THEN "rename" ELSE "consume")
  /\ UNCHANGED <<now, parts, stopping, starts, recorded, empty, disturbed>>

\* or 0, when there is no media in the parts and the output is useless,
JoinIsEmpty ==
  /\ thread.pc = "joining"
  /\ media' = [media EXCEPT ![Here] = Without(Begin, thread.next)]
  /\ empty' = [empty EXCEPT ![Here] = @ \cup thread.sel]
  /\ Goto("consume")
  /\ UNCHANGED <<now, parts, stopping, starts, recorded, disturbed>>

\* or fails, leaving what it has written: the directory is abandoned.
JoinFails ==
  /\ thread.pc = "joining"
  /\ disturbed' = TRUE
  /\ Goto("dirs")
  /\ UNCHANGED <<now, parts, media, stopping, starts, recorded, empty>>

\* Deviation: the file keeps its old name, too.
Rename_Links ==
  /\ thread.pc = "rename"
  /\ media' = [media EXCEPT ![Here] = @ \cup
        {[o EXCEPT !.end = Begin + o.ms] : o \in {o \in @ : Named(o, Begin, 0)}}]
  /\ Goto("consume")
  /\ UNCHANGED <<now, parts, stopping, starts, recorded, empty, disturbed>>

\* At the end of a chunk: the name gets the end that follows from the length
\* of the output, unless there is a file of that name.
Rename ==
  /\ thread.pc = "rename"
  /\ LET moved == {o \in media[Here] :
                     /\ Named(o, Begin, 0)
                     /\ \A p \in media[Here] : ~Named(p, Begin, Begin + o.ms)}
     IN  media' = [media EXCEPT ![Here] =
           (@ \ moved) \cup {[o EXCEPT !.end = Begin + o.ms] : o \in moved}]
  /\ Goto("consume")
  /\ UNCHANGED <<now, parts, stopping, starts, recorded, empty, disturbed>>

\* Deviation: the last part is consumed first.
Victim_Last(p) == IsLast(p, thread.sel)
Victim(p) == IsFirst(p, thread.sel)

\* One by one, in their order, the parts are deleted or moved to done_files/.
Consume ==
  /\ thread.pc = "consume"
  /\ \/ \E p \in thread.sel :
          /\ Victim(p)
          /\ parts' = [parts EXCEPT ![Here] = @ \ {p}]
          /\ thread' = [thread EXCEPT !.sel = @ \ {p}]
     \/ /\ thread.sel = {}
        /\ Goto("once")
        /\ UNCHANGED parts
  /\ UNCHANGED <<now, media, stopping, starts, recorded, empty, disturbed>>

\* stop_event_.Wait(periodic_scan_ms_).
Wait ==
  /\ thread.pc = "wait"
  /\ IF stopping THEN thread' = Idle ELSE Goto("list")
  /\ UNCHANGED <<now, parts, media, stopping, starts, recorded, empty, disturbed>>

ThreadStep ==
  \/ ListDirs \/ NextDir \/ Choose \/ Consume \/ Wait
  \/ JoinBegins \/ JoinEnds \/ JoinIsEmpty \/ JoinFails \/ Rename

-----------------------------------------------------------------------------
(* The program and its environment.                                        *)

Start ==
  /\ thread.pc = "off"
  /\ starts < MaxStarts
  /\ thread' = [Idle EXCEPT !.pc = "list"]
  /\ stopping' = FALSE
  /\ starts' = starts + 1
  /\ UNCHANGED <<now, parts, media, recorded, empty, disturbed>>

\* Stop() signals the event, then waits for the thread.
Stop ==
  /\ thread.pc # "off" /\ ~stopping
  /\ stopping' = TRUE
  /\ UNCHANGED <<now, parts, media, thread, starts, recorded, empty, disturbed>>

Crash ==
  /\ thread.pc # "off"
  /\ thread' = Idle
  /\ disturbed' = TRUE
  /\ UNCHANGED <<now, parts, media, stopping, starts, recorded, empty>>

\* A unit of time passes.  The savers that record in it leave a part, which
\* starts a new chunk or continues the part of the unit before.
Tick ==
  /\ now < MaxTime
  /\ now' = now + 1
  /\ \E savers \in SUBSET Dirs : \E chunk \in [savers -> BOOLEAN] :
       LET Saved(d) == IF d \in savers THEN {[ts |-> now, new |-> chunk[d]]} ELSE {}
       IN  /\ savers # {} => now < LastTs
           /\ \A d \in savers : \/ chunk[d]
                                \/ \E p \in recorded[d] : p.ts = now - 1
           /\ parts' = [d \in Dirs |-> parts[d] \cup Saved(d)]
           /\ recorded' = [d \in Dirs |-> recorded[d] \cup Saved(d)]
  /\ UNCHANGED <<media, thread, stopping, starts, empty, disturbed>>

Next == ThreadStep \/ Start \/ Stop \/ Crash \/ Tick

Spec == Init /\ [][Next]_pvars

\* Time passes; the thread runs; a program that is down is started again; a
\* composition that is tried again and again succeeds.
Fairness ==
  /\ WF_pvars(Tick)
  /\ WF_pvars(ThreadStep)
  /\ WF_pvars(Start)
  /\ SF_pvars(JoinEnds)

FairSpec == Spec /\ Fairness

-----------------------------------------------------------------------------
TypeOK ==
  /\ now \in Nat /\ starts \in Nat
  /\ parts \in [Dirs -> SUBSET Part] /\ recorded \in [Dirs -> SUBSET Part]
  /\ empty \in [Dirs -> SUBSET Part]
  /\ media \in [Dirs -> SUBSET Output]
  /\ stopping \in BOOLEAN /\ disturbed \in BOOLEAN
  /\ thread \in [pc : Places, todo : SUBSET Dirs, dir : Dirs \cup {"none"},
                 sel : SUBSET Part, next : Nat]

\* A part that was recorded is still there, or its media is in a complete
\* output (or it had none): whatever fails, and wherever a crash comes between
\* composing, renaming and consuming ("move or erase the part files that have
\* been composed", processor.cc:207).
NothingIsLost ==
  \A d \in Dirs : \A p \in recorded[d] :
    \/ p \in parts[d]
    \/ p \in empty[d]
    \/ \E o \in media[d] : o.whole /\ p \in o.has

\* Where nothing went wrong, a part is composed once, and between two scans
\* every output is complete and has the name of a range.
ComposedOnce ==
  ~disturbed =>
    \A d \in Dirs :
      /\ \A a, b \in media[d] : a # b => a.has \cap b.has = {}
      /\ thread.pc \in {"off", "list", "wait"} =>
           \A o \in media[d] : o.whole /\ o.end # 0

\* The name of an output was made from its length, which is more than the time
\* in which its parts were recorded.
TooLong(o) == o.end = o.begin + o.ms /\ o.ms > Cardinality(o.has)

\* The ranges in the names of two outputs of a directory do not overlap, so that
\* a player of ranges plays no minute twice (out_next_file_ts, processor.cc:129, and
\* end_file_ts, :199), whatever lengths compositions have: but for an output at
\* the end of a chunk that is longer than the time of its parts, whose range can
\* reach into the next one.  (A range may end too early: when the selection takes
\* all files, out_next_file_ts is the time of the last file that it takes and not
\* of one that follows.)
RangesAreDisjoint ==
  ~disturbed =>
    \A d \in Dirs : \A a, b \in media[d] :
      (a # b /\ a.end # 0 /\ a.begin <= b.begin) => a.end <= b.begin \/ TooLong(a)

\* An output stays within a chunk, crashes and retries included: nothing is
\* joined across a pause of the saver.
ChunksStayApart ==
  \A d \in Dirs : \A o \in media[d] : \A p \in o.has :
    p.new => p.ts = o.begin

\* Every part is consumed at last, "even if there are not enough for a complete
\* 'output_media_ms_'" (processor.h:70), though compositions fail and the
\* program crashes; unless it stays down, or is told to stop.
EveryPartIsProcessed ==
  \A d \in Dirs :
    \/ []<>(parts[d] = {})
    \/ <>[](thread.pc = "off") \/ <>[]stopping
=============================================================================
