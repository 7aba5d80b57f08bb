----------------------------- MODULE Community ------------------------------
(***************************************************************************)
(* One community post: its discussion, likes, saves and follows            *)
(* (community/service.ts), and their moderation                            *)
(* (community/moderation-service.ts).                                      *)
(*                                                                         *)
(* A session is <<member, tab>>; its page sends one server action at a     *)
(* time.  A comment row is named by the call that creates it.  Texts,      *)
(* categories, rate limits, reports and the standing of members are left   *)
(* out: a call may end before any of its steps (CallFails), as it does     *)
(* when one of those checks fails.                                         *)
(***************************************************************************)
EXTENDS Integers, FiniteSets

CONSTANTS
  Author,       \* the member who wrote the post
  Sessions,     \* <<member, tab>>
  StaffMembers, \* the members whose role is a staff role
  Moderators,   \* moderators, one call at a time each
  Comments,
  NoComment,
  Marked,       \* what the sessions like, save or follow
  MaxDepth,     \* MAX_COMMENT_DEPTH
  MaxDrift      \* bound: how far off the comment count may be when a
                \* moderator acts

ASSUME CommunityAssumption ==
  /\ NoComment \notin Comments
  /\ Marked \subseteq {"like", "bookmark", "follow"} \cup Comments
  /\ {MaxDepth, MaxDrift} \subseteq Nat

VARIABLES
  post, locked,            \* CommunityPost.status and isLocked
  comment,                 \* CommunityComment.status, or "none"
  author, parent, depth,   \* of each comment
  commentCount,            \* CommunityPost.commentCount
  marks,                   \* rows <<member, target>> of votes, saves, follows
  markCount,               \* likeCount and bookmarkCount
  call, modCall            \* what each session's and moderator's call does

commentVars == <<comment, author, parent, depth, commentCount>>
markVars    == <<marks, markCount>>
communityVars == <<post, locked, commentVars, markVars, call, modCall>>

Member(s) == s[1]
Members == {Member(s) : s \in Sessions} \cup {Author}
Status == {"PUBLISHED", "HIDDEN", "REMOVED"}
Markable == {"like", "bookmark", "follow"} \cup Comments
Counted == Marked \ {"follow"}

NotCalling == [at |-> "idle"]
Written == {c \in Comments : comment[c] # "none"}
Published == {c \in Comments : comment[c] = "PUBLISHED"}

CommunityTypeOK ==
  /\ post \in Status /\ locked \in BOOLEAN
  /\ comment \in [Comments -> Status \cup {"none"}]
  /\ author \in [Comments -> Members]
  /\ parent \in [Comments -> Comments \cup {NoComment}]
  /\ depth \in [Comments -> Nat]
  /\ commentCount \in Int
  /\ marks \subseteq Members \X Markable
  /\ markCount \in [Counted -> Nat]

CommunityInit ==
  /\ post = "PUBLISHED" /\ locked = FALSE
  /\ comment = [c \in Comments |-> "none"]
  /\ author = [c \in Comments |-> Author]
  /\ parent = [c \in Comments |-> NoComment]
  /\ depth = [c \in Comments |-> 0]
  /\ commentCount = 0
  /\ marks = {} /\ markCount = [t \in Counted |-> 0]
  /\ call = [s \in Sessions |-> NotCalling]
  /\ modCall = [a \in Moderators |-> NotCalling]

AuthorOf(t) == IF t \in Comments THEN author[t] ELSE Author
IsPublished(t) == IF t \in Comments THEN comment[t] = "PUBLISHED"
                                    ELSE post = "PUBLISHED"

Goto(s, c) == call' = [call EXCEPT ![s] = c]
-----------------------------------------------------------------------------
(* Toggles: likes of the post and of comments, saves, follows.             *)

StartToggle(s, t) ==
  /\ call[s] = NotCalling
  /\ t \in Comments => comment[t] # "none"
  /\ Goto(s, [at |-> "target", on |-> t])
  /\ UNCHANGED <<post, locked, commentVars, markVars, modCall>>

CheckTarget(s) ==
  /\ call[s].at = "target"
  /\ IsPublished(call[s].on)
  /\ call[s].on \in {"like"} \cup Comments => AuthorOf(call[s].on) # Member(s)
  /\ Goto(s, [call[s] EXCEPT !.at = "read"])
  /\ UNCHANGED <<post, locked, commentVars, markVars, modCall>>

\* The transaction finds the row or not ...
ReadMark(s) ==
  /\ call[s].at = "read"
  /\ Goto(s, [call[s] EXCEPT !.at =
       IF <<Member(s), call[s].on>> \in marks THEN "remove" ELSE "add"])
  /\ UNCHANGED <<post, locked, commentVars, markVars, modCall>>

Count(t, n) ==
  markCount' = [u \in Counted |-> IF u = t THEN markCount[u] + n
                                           ELSE markCount[u]]

\* Mutant: the row is removed with deleteMany, the counter lowered anyway.
RemoveMarkAnyway(s) ==
  /\ call[s].at = "remove"
  /\ marks' = marks \ {<<Member(s), call[s].on>>} /\ Count(call[s].on, -1)
  /\ Goto(s, NotCalling)
  /\ UNCHANGED <<post, locked, commentVars, modCall>>

\* ... and removes it.  If a racing call removed it before, the delete throws
\* and the transaction, its counter included, is rolled back.
RemoveMark(s) ==
  /\ call[s].at = "remove"
  /\ LET row == <<Member(s), call[s].on>>
     IN  \/ row \in marks /\ marks' = marks \ {row} /\ Count(call[s].on, -1)
         \/ row \notin marks /\ UNCHANGED markVars
  /\ Goto(s, NotCalling)
  /\ UNCHANGED <<post, locked, commentVars, modCall>>

\* ... or adds it; a unique violation rolls back.
AddMark(s) ==
  /\ call[s].at = "add"
  /\ LET row == <<Member(s), call[s].on>>
     IN  \/ row \notin marks /\ marks' = marks \cup {row} /\ Count(call[s].on, 1)
         \/ row \in marks /\ UNCHANGED markVars
  /\ Goto(s, NotCalling)
  /\ UNCHANGED <<post, locked, commentVars, modCall>>
-----------------------------------------------------------------------------
(* Comments and the author's deletions.                                    *)

StartComment(s, c, p) ==
  /\ call[s] = NotCalling
  /\ comment[c] = "none"
  /\ \A r \in Sessions : call[r] # NotCalling => call[r].on # c
  /\ Goto(s, [at |-> "post", on |-> c, under |-> p])
  /\ UNCHANGED <<post, locked, commentVars, markVars, modCall>>

\* Staff comment on a locked post too.
ReadPost(s) ==
  /\ call[s].at = "post"
  /\ post = "PUBLISHED" /\ (locked => s[1] \in StaffMembers)
  /\ Goto(s, [call[s] EXCEPT !.at =
       IF call[s].under = NoComment THEN "write" ELSE "parent"])
  /\ UNCHANGED <<post, locked, commentVars, markVars, modCall>>

ReadParent(s) ==
  /\ call[s].at = "parent"
  /\ comment[call[s].under] = "PUBLISHED"
  /\ Goto(s, [call[s] EXCEPT !.at = "write"])
  /\ UNCHANGED <<post, locked, commentVars, markVars, modCall>>

\* Past the maximum depth a reply becomes a sibling of the comment it answers.
Place(p) ==
  IF p = NoComment THEN [parent |-> NoComment, depth |-> 0]
  ELSE IF depth[p] < MaxDepth THEN [parent |-> p, depth |-> depth[p] + 1]
  ELSE [parent |-> parent[p], depth |-> depth[p]]

WriteComment(s) ==
  /\ call[s].at = "write"
  /\ LET c == call[s].on
         place == Place(call[s].under)
     IN  /\ comment' = [comment EXCEPT ![c] = "PUBLISHED"]
         /\ author' = [author EXCEPT ![c] = Member(s)]
         /\ parent' = [parent EXCEPT ![c] = place.parent]
         /\ depth' = [depth EXCEPT ![c] = place.depth]
  /\ commentCount' = commentCount + 1
  /\ marks' = marks \cup {<<Member(s), "follow">>}
  /\ Goto(s, NotCalling)
  /\ UNCHANGED <<post, locked, markCount, modCall>>

StartDelete(s, c) ==
  /\ call[s] = NotCalling
  /\ comment[c] = "PUBLISHED" /\ author[c] = Member(s)
  /\ Goto(s, [at |-> "delete", on |-> c])
  /\ UNCHANGED <<post, locked, commentVars, markVars, modCall>>

\* The two updates in one transaction; the status is not looked at again.
Delete(s) ==
  /\ call[s].at = "delete"
  /\ comment' = [comment EXCEPT ![call[s].on] = "REMOVED"]
  /\ commentCount' = commentCount - 1
  /\ Goto(s, NotCalling)
  /\ UNCHANGED <<post, locked, author, parent, depth, markVars,
                 modCall>>

\* deleteOwnPost, of the author's session.
StartDeletePost(s) ==
  /\ call[s] = NotCalling
  /\ Member(s) = Author /\ post # "REMOVED"
  /\ Goto(s, [at |-> "deletePost", on |-> "post"])
  /\ UNCHANGED <<post, locked, commentVars, markVars, modCall>>

DeletePost(s) ==
  /\ call[s].at = "deletePost"
  /\ post' = "REMOVED"
  /\ Goto(s, NotCalling)
  /\ UNCHANGED <<locked, commentVars, markVars, modCall>>

\* A check fails, a limit is reached or an awaited call throws.
CallFails(s) ==
  /\ call[s] # NotCalling /\ Goto(s, NotCalling)
  /\ UNCHANGED <<post, locked, commentVars, markVars, modCall>>
-----------------------------------------------------------------------------
(* Moderators.                                                             *)

StatusOf(t) == IF t = "post" THEN post ELSE comment[t]

Drift == commentCount - Cardinality(Published)

\* moderatePostStatus and moderateCommentStatus read the status ...
OpenModeration(a, t, to) ==
  /\ modCall[a] = NotCalling
  /\ Drift \in 1 - MaxDrift .. MaxDrift - 1
  /\ StatusOf(t) \notin {to, "none"}
  /\ modCall' = [modCall EXCEPT ![a] =
       [at |-> "write", on |-> t, from |-> StatusOf(t), to |-> to]]
  /\ UNCHANGED <<post, locked, commentVars, markVars, call>>

\* Mutant: every removal of a comment counts.
DeltaOfRemoval(from, to) == IF to = "PUBLISHED" THEN 1 ELSE -1

\* The post's comment count tracks published comments only.
Delta(from, to) == (IF to = "PUBLISHED" THEN 1 ELSE 0)
                     - (IF from = "PUBLISHED" THEN 1 ELSE 0)

\* ... and write, counting from the status that was read.
Moderate(a) ==
  /\ modCall[a] # NotCalling
  /\ LET m == modCall[a]
     IN  \/ /\ m.on = "post"
            /\ post' = m.to
            /\ UNCHANGED <<comment, commentCount>>
         \/ /\ m.on # "post"
            /\ comment' = [comment EXCEPT ![m.on] = m.to]
            /\ commentCount' = commentCount + Delta(m.from, m.to)
            /\ UNCHANGED post
  /\ modCall' = [modCall EXCEPT ![a] = NotCalling]
  /\ UNCHANGED <<locked, author, parent, depth, markVars, call>>

LockPost ==
  /\ locked' = ~locked
  /\ UNCHANGED <<post, commentVars, markVars, call, modCall>>

-----------------------------------------------------------------------------
MemberStep(s) ==
  \/ CheckTarget(s) \/ ReadMark(s) \/ RemoveMark(s) \/ AddMark(s)
  \/ ReadPost(s) \/ ReadParent(s) \/ WriteComment(s)
  \/ Delete(s) \/ StartDeletePost(s) \/ DeletePost(s) \/ CallFails(s)
  \/ \E t \in Marked : StartToggle(s, t)
  \/ \E c \in Comments :
       \/ StartDelete(s, c)
       \/ \E p \in Written \cup {NoComment} : StartComment(s, c, p)

ModeratorStep(a) ==
  \/ \E t \in Comments \cup {"post"}, to \in Status : OpenModeration(a, t, to)
  \/ Moderate(a)

CommunityNext ==
  \/ \E s \in Sessions : MemberStep(s)
  \/ \E a \in Moderators : ModeratorStep(a)
  \/ LockPost

CommunitySpec == CommunityInit /\ [][CommunityNext]_communityVars
-----------------------------------------------------------------------------
(* Properties.                                                             *)

\* The service "keeps the denormalised counters in step": likes and saves are
\* counted as often as there are rows, although two tabs of one member both
\* read the row before either of them writes.
MarksCounted ==
  \A t \in Counted :
    markCount[t] = Cardinality({m \in Members : <<m, t>> \in marks})

\* Threads stay readable and whole: no comment is deeper than MaxDepth, and
\* each is one level below the comment it is attached to.
ThreadsHold ==
  \A c \in Written :
    /\ depth[c] <= MaxDepth
    /\ parent[c] = NoComment => depth[c] = 0
    /\ parent[c] # NoComment =>
         parent[c] \in Written /\ depth[c] = depth[parent[c]] + 1

\* Every state is well typed, marks are counted and threads hold.
CommunityInv == CommunityTypeOK /\ MarksCounted /\ ThreadsHold

StaleRead(t, from) == t \in Comments /\ comment[t] # from

\* The comment count drifts from the published comments in one way only: a
\* call writes the status of a comment that changed after the call read it.
DriftNeedsStaleRead ==
  [][\/ commentCount' - commentCount
          = Cardinality(Published') - Cardinality(Published)
     \/ \E a \in Moderators :
          /\ modCall[a] # NotCalling /\ modCall'[a] = NotCalling
          /\ StaleRead(modCall[a].on, modCall[a].from)
     \/ \E s \in Sessions :
          /\ call[s].at = "delete" /\ call'[s] = NotCalling
          /\ StaleRead(call[s].on, "PUBLISHED")]_communityVars

-----------------------------------------------------------------------------
(* A sentence of the code that its behaviour contradicts.                  *)

\* "The post's comment count tracks PUBLISHED comments only": two moderators,
\* or a moderator and the author, who remove a comment at once count it twice.
CommentsCounted == Drift = 0
=============================================================================
