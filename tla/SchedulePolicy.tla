--------------------------- MODULE SchedulePolicy ---------------------------
(***************************************************************************)
(* extra_library/schedule: SchedulePlaylistPolicy, which makes an element  *)
(* play each item of a play list at its time of the day, and a default     *)
(* media when its media has ended and no item is due.                      *)
(*                                                                         *)
(* One selector thread: the alarm, the ends of streams and the RPCs        *)
(* interleave.  The unit of time is kMinScheduleError, the tolerance.      *)
(***************************************************************************)
EXTENDS Integers

CONSTANTS
  Items,        \* number of items; the hash map has them in the order of ids
  Day,          \* the items repeat after this time
  Second,       \* what the times and durations of items are multiples of
  MinEosInterval, MinEosRetry, UndefinedDuration,     \* as in the code
  Offsets,      \* when items begin, in seconds
  Durations,    \* how long they are, in seconds; 0 is unknown
  Defaults,     \* default medias, by number; 0 is the empty name
  MaxTime,      \* bound: the clock stops here
  MaxSets       \* bound: play lists that users set

VARIABLES
  now,
  policy,       \* the policy object: see Policy
  player,       \* the media that its element plays
  keeper,       \* the global state keeper
  late,         \* history: may the policy play the wrong item until its alarm?
  failed,       \* history: CHECKs that ended the program
  sets          \* history: how many play lists were set

schedVars == <<now, policy, player, keeper, late, failed, sets>>

ItemIds == 1 .. Items
InvalidItemId == 0 - 1
Error == 1                                            \* kMinScheduleError

Item == [at : Offsets, duration : Nat]
NoItem == [at |-> 0, duration |-> 0, none |-> TRUE]
Specs == [ItemIds -> Item \cup {NoItem}]              \* specs_
NoSpecs == [id \in ItemIds |-> NoItem]

\* What an element plays.
Media == ({"item"} \X ItemIds) \cup ({"default"} \X Defaults) \cup {<<"silence", 0>>}
Silence == <<"silence", 0>>
Never == 0 - 1

\* alarm: when next_callback_ rings.
Policy == [up : BOOLEAN, specs : Specs, default : Defaults, alarm : Nat \cup {Never},
           current : ItemIds \cup {InvalidItemId}, begin : Nat]
Keeper == [set : BOOLEAN, specs : Specs, default : Defaults,
           current : ItemIds \cup {InvalidItemId}]

\* The policy that the configuration has: no items.
Configured(default) == [up |-> FALSE, specs |-> NoSpecs, default |-> default,
                        current |-> InvalidItemId, begin |-> 0, alarm |-> Never]

Init ==
  /\ now = Day
  /\ \E d \in Defaults :
       /\ policy = Configured(d)
       /\ keeper = [set |-> FALSE, specs |-> NoSpecs, default |-> d, current |-> InvalidItemId]
  /\ player = Silence
  /\ late = FALSE
  /\ failed = {}
  /\ sets = 0

-----------------------------------------------------------------------------
(* What is to be played when.                                              *)

Larger(a, b) == IF a > b THEN a ELSE b
Smaller(a, b) == IF a < b THEN a ELSE b

\* PrevHappening and NextFutureHappening, of items that are due every day.
PrevHappening(item, t) == (t - item.at * Second) % Day
NextFutureHappening(item, t) == Day - PrevHappening(item, t)

Length(item) == IF item.duration > 0 THEN item.duration * Second ELSE UndefinedDuration
Began(item, t) == t - PrevHappening(item, t)
Ended(item, t) == Began(item, t) + Length(item)
Far == 100 * Day                                      \* kMaxEventDurationSec

\* An item that runs at t and began after the best so far is better; one that
\* began after it and is over has interrupted it.
Better(best, item, id, t) ==
  IF Ended(item, t) >= t /\ Began(item, t) > best.begin
  THEN [id |-> id, begin |-> Began(item, t), end |-> Ended(item, t),
        switch |-> Larger(best.switch, Began(item, t))]
  ELSE best
Interrupted(best, item, t) ==
  IF Ended(item, t) <= t /\ Began(item, t) > best.begin
  THEN [best EXCEPT !.switch = Larger(@, Ended(item, t))]
  ELSE best

GetCurrentItemAtTime(specs, t) ==
  LET best[id \in 0 .. Items] ==
        IF id = 0
        THEN [id |-> InvalidItemId, begin |-> t - Far, switch |-> t - Far, end |-> t + Far]
        ELSE IF specs[id] = NoItem THEN best[id - 1]
        ELSE Interrupted(Better(best[id - 1], specs[id], id, t), specs[id], t)
  IN  best[Items]

GetFutureBegin(specs, t) ==
  LET begins == {t + NextFutureHappening(specs[id], t) : id \in {i \in ItemIds : specs[i] # NoItem}}
  IN  CHOOSE b \in begins \cup {t + Far} : \A c \in begins : b <= c

\* Deviation: an item plays to its end.
GetItemAtTime_Uninterrupted(specs, t) == GetCurrentItemAtTime(specs, t)

GetItemAtTime(specs, t) ==
  [GetCurrentItemAtTime(specs, t) EXCEPT !.end = Smaller(@, GetFutureBegin(specs, t))]

\* The second element that GetScheduleAtTime finds: it is asked for a moment
\* after the end of the first.
GetNextItem(specs, t) ==
  LET at == GetItemAtTime(specs, t).end + Error
      next == GetItemAtTime(specs, at)
  IN  IF next.id = InvalidItemId THEN [next EXCEPT !.begin = at - Error, !.switch = at - Error]
      ELSE next

-----------------------------------------------------------------------------
(* The operations, on the states of policy, player and state keeper.       *)

Save(st) == [st EXCEPT !.keeper = [set |-> TRUE, specs |-> st.policy.specs,
                                   default |-> st.policy.default,
                                   current |-> st.policy.current]]

\* SwitchCurrentMedia, then SaveState.
SwitchTo(st, media) == Save([st EXCEPT !.player = media])

SwitchToDefault(st) ==
  LET to == [st EXCEPT !.policy.current = InvalidItemId, !.policy.begin = now]
  IN  IF to.policy.default = 0 THEN to ELSE SwitchTo(to, <<"default", to.policy.default>>)
SwitchToItem(st, id) ==
  SwitchTo([st EXCEPT !.policy.current = id, !.policy.begin = now], <<"item", id>>)

\* The moment for which it is asked what is due, so that an alarm that rings
\* early does not miss its switch.
Soon == now + Error

\* Deviation: the alarm rings only when an item is due.
Register_IfDue(st) ==
  LET delay == GetNextItem(st.policy.specs, Soon).switch - now
  IN  IF GetItemAtTime(st.policy.specs, Soon).id = InvalidItemId THEN st
      ELSE [st EXCEPT !.policy.alarm = now + delay]

\* The alarm for the next switch: "CHECK(delay > 0)".
Register(st) ==
  LET delay == GetNextItem(st.policy.specs, Soon).switch - now
  IN  IF delay > 0 THEN [st EXCEPT !.policy.alarm = now + delay]
      ELSE [st EXCEPT !.failed = @ \cup {"delay > 0"}]

\* Deviation: it is switched at the end of a stream only.
GoToNext_AtEos(st, eos) ==
  LET due == GetItemAtTime(st.policy.specs, Soon).id
      switched ==
        IF due # InvalidItemId /\ eos THEN SwitchToItem(st, due)
        ELSE IF eos THEN SwitchToDefault(st) ELSE st
  IN  IF st.policy.specs = NoSpecs THEN [switched EXCEPT !.policy.alarm = Never]
      ELSE Register(switched)

\* The early return is left out: no switch is later than the moment that is asked
\* about.
GoToNext(st, eos) ==
  LET due == GetItemAtTime(st.policy.specs, Soon).id
      switched ==
        IF due # InvalidItemId /\ (due # st.policy.current \/ eos) THEN SwitchToItem(st, due)
        ELSE IF eos THEN SwitchToDefault(st) ELSE st
  IN  IF st.policy.specs = NoSpecs THEN [switched EXCEPT !.policy.alarm = Never]
      ELSE Register(switched)

\* SetPlaylist with both optional fields set.
SetPlaylist(st, default, specs) ==
  LET named == [st EXCEPT !.policy.default = default]
      begun == IF st.policy.current # InvalidItemId THEN named
               ELSE SwitchTo([named EXCEPT !.policy.begin = now], <<"default", default>>)
  IN  GoToNext([begun EXCEPT !.policy.specs = specs], FALSE)

SetDefaultMedia(st, default) ==
  LET named == [st EXCEPT !.policy.default = default]
  IN  IF default # st.policy.default /\ st.policy.current = InvalidItemId
      THEN SwitchTo([named EXCEPT !.policy.begin = now], <<"default", default>>)
      ELSE named

\* LoadState takes what was saved first, for SetPlaylist saves, too; then it
\* goes back to the item that was current, due or not.
LoadState(st) ==
  LET was == st.keeper
      loaded == IF was.set THEN SetPlaylist(st, was.default, was.specs) ELSE st
  IN  IF was.set /\ was.current # InvalidItemId /\ loaded.policy.specs[was.current] # NoItem
      THEN SwitchTo([loaded EXCEPT !.policy.current = was.current], <<"item", was.current>>)
      ELSE GoToNext([loaded EXCEPT !.policy.current = was.current], TRUE)

\* The length of the current item is not known.
IsUnknown(p) ==
  p.current # InvalidItemId /\ p.specs[p.current] # NoItem /\ p.specs[p.current].duration = 0

\* Deviation: the difference is reversed.
Measured_Reversed(st) ==
  LET id == st.policy.current
  IN  IF IsUnknown(st.policy)
      THEN Save([st EXCEPT !.policy.specs[id].duration = (st.policy.begin - now) \div Second])
      ELSE st

\* An unknown duration is known at the end.
Measured(st) ==
  LET id == st.policy.current
  IN  IF IsUnknown(st.policy)
      THEN Save([st EXCEPT !.policy.specs[id].duration = (now - st.policy.begin) \div Second])
      ELSE st

-----------------------------------------------------------------------------
State == [policy |-> policy, player |-> player, keeper |-> keeper, failed |-> {}]

\* A CHECK that fails ends the program.
Becomes(st) ==
  /\ policy' = IF st.failed = {} THEN st.policy ELSE Configured(policy.default)
  /\ player' = IF st.failed = {} THEN st.player ELSE Silence
  /\ keeper' = st.keeper
  /\ failed' = failed \cup st.failed

Start ==
  /\ ~policy.up
  /\ \E d \in Defaults :
       Becomes(LoadState([State EXCEPT !.policy = [Configured(d) EXCEPT !.up = TRUE]]))
  /\ late' = (keeper.set /\ keeper.current # InvalidItemId)
  /\ UNCHANGED <<now, sets>>

Crash ==
  /\ policy.up
  /\ policy' = Configured(policy.default)
  /\ player' = Silence
  /\ late' = FALSE
  /\ UNCHANGED <<now, keeper, failed, sets>>

\* Deviation: it does not.
RpcSetPlaylist_Unsaved ==
  /\ policy.up
  /\ sets < MaxSets
  /\ \E d \in Defaults, specs \in [ItemIds -> [at : Offsets, duration : Durations] \cup {NoItem}] :
       Becomes(SetPlaylist(State, d, specs))
  /\ late' = FALSE
  /\ sets' = sets + 1
  /\ UNCHANGED now

\* The SetPlaylist RPC saves once more.
RpcSetPlaylist ==
  /\ policy.up
  /\ sets < MaxSets
  /\ \E d \in Defaults, specs \in [ItemIds -> [at : Offsets, duration : Durations] \cup {NoItem}] :
       Becomes(Save(SetPlaylist(State, d, specs)))
  /\ late' = FALSE
  /\ sets' = sets + 1
  /\ UNCHANGED now

RpcSetDefaultMedia ==
  /\ policy.up
  /\ \E d \in Defaults : Becomes(SetDefaultMedia(State, d))
  /\ UNCHANGED <<now, late, sets>>

Alarm ==
  /\ policy.up
  /\ policy.alarm # Never /\ now >= policy.alarm
  /\ Becomes(GoToNext([State EXCEPT !.policy.alarm = Never], FALSE))
  /\ late' = FALSE
  /\ UNCHANGED <<now, sets>>

\* A stream ends.  One that was very short is not followed at once.
NotifyEos ==
  /\ policy.up /\ player # Silence
  /\ LET ended == [State EXCEPT !.player = Silence]
         short == now - policy.begin < MinEosInterval
     IN  /\ IF IsUnknown(policy) /\ now <= policy.begin
            THEN Becomes([ended EXCEPT !.failed = @ \cup {"now > current_begin_ts_"}])
            ELSE Becomes(IF short
                         THEN [Measured(ended) EXCEPT !.policy.alarm = now + MinEosRetry]
                         ELSE GoToNext(Measured(ended), TRUE))
         /\ late' = short
  /\ UNCHANGED <<now, sets>>

\* Alarms ring in time, or a little later.
Tick ==
  /\ now < MaxTime
  /\ policy.alarm # Never => now < policy.alarm + Error
  /\ now' = now + 1
  /\ UNCHANGED <<policy, player, keeper, late, failed, sets>>

Next ==
  \/ Start \/ Crash \/ RpcSetPlaylist \/ RpcSetDefaultMedia
  \/ Alarm \/ NotifyEos \/ Tick

Spec == Init /\ [][Next]_schedVars

-----------------------------------------------------------------------------
TypeOK ==
  /\ now \in Nat
  /\ policy \in Policy
  /\ keeper \in Keeper
  /\ player \in Media
  /\ late \in BOOLEAN

\* The item that is due at a time, by the header: of those that have begun and
\* have not ended, the one that began last.
Due(t) ==
  LET runs == {id \in ItemIds : policy.specs[id] # NoItem /\ Ended(policy.specs[id], t) >= t}
      began(id) == Began(policy.specs[id], t)
      last == {id \in runs : \A other \in runs : began(other) <= began(id)}
  IN  IF last = {} THEN InvalidItemId ELSE CHOOSE id \in last : \A other \in last : id <= other

\* "out_end_ts: ... either the absolute item end, or the beginning of the next
\* interrupting event" (schedule_policy.h:170): until the end that GetItemAtTime
\* finds, and not for longer, its item is the one that is due.
EndsWhenInterrupted ==
  LET item == GetItemAtTime(policy.specs, now)
      later == Smaller(item.end, now + 2 * Day)
  IN  /\ item.id = Due(now)
      /\ \A t \in now .. later - 1 : Due(t) = item.id
      /\ item.end = now + Far \/ Due(item.end + Error) # item.id
         \/ \E id \in ItemIds : policy.specs[id] # NoItem /\ Began(policy.specs[id], item.end) = item.end

\* But for a tolerance around each switch, the policy plays the item that is
\* due, if there is one; unless it was just started, or a stream was very short:
\* then it may be wrong until its alarm.
FollowsSchedule ==
  (policy.up /\ ~late) =>
    LET due == Due(now)
    IN  (\A t \in now - 2 * Error .. now + Error : Due(t) = due) =>
          due \in {policy.current, InvalidItemId}

\* While there are items there is an alarm, soon enough for whatever ends the
\* item that is due: no sequence of streams that end, play lists and restarts
\* stops the schedule.
NeverAsleep ==
  (policy.up /\ policy.specs # NoSpecs) =>
    /\ policy.alarm # Never
    /\ policy.alarm <= Larger(GetItemAtTime(policy.specs, now + Error).end + Error,
                              now + MinEosRetry)

\* "and int that case we don't react that fast.." (schedule_policy.h:45): after a
\* stream that was very short, the alarm makes the element play again.
AlarmEndsSilence == [][Alarm /\ player = Silence => player' # Silence]_schedVars

\* The only CHECK that fails is that of a stream of unknown length which ends in
\* the moment it begins.
ChecksHold == failed \subseteq {"now > current_begin_ts_"}

\* The play list that a restart finds is the one that is played, with the
\* durations that were measured; provided there is a default media.
PlaylistIsDurable ==
  (policy.up /\ 0 \notin Defaults) =>
    (policy.specs # NoSpecs => keeper.specs = policy.specs)
=============================================================================
