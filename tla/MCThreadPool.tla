---------------------------- MODULE MCThreadPool ----------------------------
(***************************************************************************)
(* Model checking of ThreadPool with a picture in small: the CTU tasks are *)
(* the group ctu, and the task that finishes the picture is the group div  *)
(* and waits for the counter of the CTU tasks.                             *)
(***************************************************************************)
EXTENDS ThreadPool, TLC

CONSTANTS ctu, div   \* the counters

\* Two CTU tasks, of which the second polls the first, and the finishing task.
PictureGroups == <<ctu, ctu, div>>
PictureDeps   == <<{}, {}, {ctu}>>
PicturePolls  == <<{}, {1}, {}>>
PictureWaits  == <<ctu, div>>

\* One CTU task and the finishing task, which waits for it.
SmallGroups == <<ctu, div>>
ChainDeps   == <<{}, {1}>>
SmallPolls  == <<{}, {}>>

\* CTU tasks only: two, or one.
SingleGroup == <<ctu>>
SingleDeps  == <<{}>>
PairGroups  == <<ctu, ctu>>
PairDeps    == <<{}, {}>>
PairWaits   == <<ctu>>

Symmetric == Permutations(Threads)
=============================================================================
