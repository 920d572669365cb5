----------------------------- MODULE MCEncPool -----------------------------
(***************************************************************************)
(* Model checking of EncPool: a picture is filtered in two lines, the      *)
(* second of which does not overtake the first, and then coded, in two     *)
(* tasks, the second of which polls the first, and a task that finishes    *)
(* it.                                                                     *)
(***************************************************************************)
EXTENDS EncPool

CONSTANTS ctu, mctf   \* the counters

\* Two lines of the filter, two CTU tasks, and the task behind their counter.
PictureCounters == <<mctf, mctf, ctu, ctu, None>>
PictureDeps     == <<{}, {}, {}, {}, {ctu}>>
PicturePolls    == <<{}, {}, {}, {3}, {}>>
PictureFollows  == <<{}, {1}, {}, {}, {}>>

AddTask(t)   == [do |-> "add", on |-> t]
AwaitTask(t) == [do |-> "await", on |-> t]
WaitFor(c)   == [do |-> "wait", on |-> c]
PictureProgram ==
  <<AddTask(1), AddTask(2), WaitFor(mctf), AddTask(3), AddTask(4), AddTask(5), AwaitTask(5)>>
=============================================================================
