--------------------------- MODULE SessionWindower ---------------------------
(***************************************************************************)
(* The windower behind SessionWindow: the sessions of one key.  A session  *)
(* is a record [key, open, close], where open is its start and close the   *)
(* time of its latest event; it takes events for a gap longer than that.   *)
(***************************************************************************)
EXTENDS Integers

(* current_close_time, is_open_at and contains (InSession). *)
CloseTime(s, gap) == s.close + gap
IsOpenAt(s, time, gap) == CloseTime(s, gap) > time
InSession(s, time, gap) == time >= s.open /\ IsOpenAt(s, time, gap)

NewSession(key, time) == [key |-> key, open |-> time, close |-> time]

(* The session list is sorted by start.  A new session follows an old one   *)
(* with the same start: sort_unstable is an insertion sort on short lists.  *)
Before(a, b) == a.open < b.open \/ (a.open = b.open /\ a.key < b.key)
Earlier(sessions, s) == {r \in sessions : Before(r, s)}
FirstOf(sessions) == CHOOSE s \in sessions : \A r \in sessions : r = s \/ Before(s, r)
LastOf(sessions) == CHOOSE s \in sessions : \A r \in sessions : r = s \/ Before(r, s)
Follows(sessions, r, s) == Earlier(sessions, s) # {} /\ r = LastOf(Earlier(sessions, s))

MergeWith_KeepsEnd(s, t) ==
  [s EXCEPT !.open = IF t.open < s.open THEN t.open ELSE s.open]
MergeWith(s, t) ==
  [key |-> s.key,
   open |-> IF t.open < s.open THEN t.open ELSE s.open,
   close |-> IF t.close > s.close THEN t.close ELSE s.close]

(* merge_sessions: from the earliest on, a session that starts inside the   *)
(* one before it is merged into that one, and takes its key.  top[s] is the *)
(* last of the merged sessions when s has been taken.                       *)
Tops(sessions, gap) ==
  LET top[s \in sessions] ==
        LET earlier == Earlier(sessions, s)
        IN  IF earlier # {} /\ InSession(top[LastOf(earlier)], s.open, gap)
              THEN MergeWith(top[LastOf(earlier)], s)
              ELSE s
  IN  top
MergeSessions(sessions, gap) ==
  LET top == Tops(sessions, gap)
      stays(r) == \A s \in sessions : Follows(sessions, r, s) => ~ InSession(top[r], s.open, gap)
  IN  {top[r] : r \in {r \in sessions : stays(r)}}

(* insert() of an item that is not late: add_session and merge_sessions;    *)
(* the item then goes to the first session that contains it.                *)
AddSession(sessions, maxKey, time, gap) ==
  MergeSessions(sessions \cup {NewSession(maxKey + 1, time)}, gap)
SessionFor(sessions, time, gap) == FirstOf({s \in sessions : InSession(s, time, gap)})

TryInsert(s, time) == [s EXCEPT !.close = IF time > s.close THEN time ELSE s.close]

SessionLate(watermark, time) == time < watermark
SessionClosed(s, watermark, gap) == ~ IsOpenAt(s, watermark, gap)
(* next_close looks at the last session of the list. *)
SessionNextClose(sessions, gap) == CloseTime(LastOf(sessions), gap)
=============================================================================
