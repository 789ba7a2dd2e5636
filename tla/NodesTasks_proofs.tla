------------------------- MODULE NodesTasks_proofs -------------------------
(* Proofs about NodesTasks: what was in use when a task began is still on    *)
(* disk, unless it was opened without having been renamed, for every set of  *)
(* tasks, contents and faults; and about Conversions, by which a task gets   *)
(* the content it writes: base64 and RC4 undo themselves.                    *)
EXTENDS NodesTasks, Conversions, FiniteSetTheorems, SequenceTheorems, WellFoundedInduction, TLAPS

Update_(c) == c.do = "update" /\ c.content # Empty
Delete_(c) == c.do = "delete"

\* The calls of a task leave a backup alone once it was made.
Careful(cs) ==
  /\ \A i \in DOMAIN cs : Delete_(cs[i]) => cs[i].file.baks = 1
  /\ \A i, j \in DOMAIN cs : i < j /\ Update_(cs[i]) /\ cs[i].file.baks = 0 =>
       /\ Delete_(cs[j]) => cs[j].file # Bak(cs[i].file)
       /\ Update_(cs[j]) => cs[j].file # cs[i].file /\ cs[j].file.baks = 0

\* Every call is made to a file, with a content of the task.
Typed(cs) ==
  /\ Len(cs) \in 1..6 /\ DOMAIN cs = 1..Len(cs)
  /\ \A i \in DOMAIN cs :
       /\ cs[i].do \in {"mkdir", "test", "delete", "update"}
       /\ cs[i].do \in {"delete", "update"} => cs[i].file \in File /\ cs[i].file.baks \in 0..1
       /\ cs[i].do = "update" => cs[i].content \in Version \cup {Empty}

LEMMA LiveIsFile ==
  ASSUME NEW d \in {"conf", "sites", "cert", "lua", "html"}, NEW n \in Name
  PROVE  /\ Live(d, n) \in File /\ Live(d, n).baks = 0
         /\ Bak(Live(d, n)) \in File /\ Bak(Live(d, n)).baks = 1
         /\ Live(d, n).dir = d /\ Live(d, n).name = n
         /\ Bak(Live(d, n)).dir = d /\ Bak(Live(d, n)).name = n
  BY DEF Live, Bak, File

LEMMA BakIsOther ==
  ASSUME NEW f \in File, f.baks \in 0..1
  PROVE  Bak(f) \in File /\ Bak(f) # f /\ Bak(f).baks = f.baks + 1
         /\ Bak(f).dir = f.dir /\ Bak(f).name = f.name
  BY DEF Bak, File

LEMMA BakIsInjective ==
  ASSUME NEW f \in File, NEW g \in File, f.baks = 0, g.baks = 0, Bak(f) = Bak(g)
  PROVE  f = g
  BY DEF Bak, File

LEMMA CallsTyped == ASSUME NEW t \in Task  PROVE Typed(Calls(t))
  <1>0. /\ t.kind \in Kind /\ t.dir \in {"conf", "sites"}
        /\ t.content \in Version \cup {Empty} /\ t.extra \in Version \cup {Empty}
    BY TaskAssumption
  <1> DEFINE In(f) == f \in File /\ f.baks \in 0..1
  <1>1. ASSUME NEW d \in {"conf", "sites", "cert", "lua", "html"}, NEW n \in Name
        PROVE  In(Live(d, n)) /\ In(Bak(Live(d, n)))
    BY LiveIsFile
  <1>2. CASE t.kind = "nginx_main"
    <2>1. /\ In(Bak(Live("conf", "nginx_main"))) /\ In(Live("conf", "nginx"))
          /\ In(Bak(Live("conf", "nginx")))
          /\ In(Bak(Live(t.dir, "nginx"))) /\ In(Live(t.dir, "nginx"))
      BY <1>0, <1>1 DEF Name
    <2> HIDE DEF In
    <2>2. Typed(MainCalls(t))
      BY <1>0, <2>1 DEF Typed, MainCalls, InstallSite, MakeDir, Test, Delete, Update, In
    <2> QED BY <1>2, <2>2 DEF Calls
  <1>3. CASE t.kind = "site"
    <2>1. /\ In(Bak(Live("conf", "site")))
          /\ In(Bak(Live(t.dir, "site"))) /\ In(Live(t.dir, "site"))
      BY <1>0, <1>1 DEF Name
    <2> HIDE DEF In
    <2>2. Typed(SiteCalls(t))
      BY <1>0, <2>1 DEF Typed, SiteCalls, InstallSite, MakeDir, Test, Delete, Update, In
    <2> QED BY <1>3, <2>2 DEF Calls
  <1>4. CASE t.kind = "cache"
    <2>1. In(Bak(Live("conf", "cache")))
      BY <1>1 DEF Name
    <2>2. Typed(CacheCalls(t))
      BY <1>0, <2>1 DEF Typed, CacheCalls, Delete, Update
    <2> QED BY <1>4, <2>2 DEF Calls
  <1>5. CASE t.kind = "ssl"
    <2>1. In(pem) /\ In(key) /\ In(Bak(pem)) /\ In(Bak(key))
      BY <1>1 DEF Name, pem, key
    <2> HIDE DEF In
    <2> DEFINE B == << Delete(Bak(pem)), Delete(Bak(key)), Delete(Bak(key)) >>
               U == << Delete(Bak(pem)), Delete(Bak(key)), Update(pem, t.content),
                       Update(key, t.extra) >>
    <2>2. Typed(U)
      <3>1. Len(U) = 4 /\ DOMAIN U = 1..4
        OBVIOUS
      <3>2. Delete(Bak(pem)).file = Bak(pem) /\ Delete(Bak(key)).file = Bak(key)
        BY DEF Delete
      <3>3. Update(pem, t.content).file = pem /\ Update(key, t.extra).file = key
        BY DEF Update
      <3> QED BY <1>0, <2>1, <3>1, <3>2, <3>3 DEF Typed, Delete, Update, In
    <2>3. Typed(B)
      BY <2>1 DEF Typed, Delete, In
    <2>4. SslCalls(t) = U \/ SslCalls(t) = B
      BY DEF SslCalls
    <2>5. Typed(SslCalls(t))
      <3> HIDE DEF U, B
      <3> QED BY <2>2, <2>3, <2>4
    <2> QED BY <1>5, <2>5 DEF Calls
  <1>6. CASE t.kind = "lua"
    <2>1. In(Live("lua", "lua")) /\ In(Bak(Live("lua", "lua")))
      BY <1>1 DEF Name
    <2>2. Typed(LuaCalls(t))
      BY <1>0, <2>1 DEF Typed, LuaCalls, Delete, Update
    <2> QED BY <1>6, <2>2 DEF Calls
  <1>7. CASE t.kind = "errpage"
    <2>1. In(Live("html", "html")) /\ In(Bak(Live("html", "html")))
      BY <1>1 DEF Name
    <2>2. Typed(ErrpageCalls(t))
      BY <1>0, <2>1 DEF Typed, ErrpageCalls, Delete, Update
    <2> QED BY <1>7, <2>2 DEF Calls
  <1> QED BY <1>0, <1>2, <1>3, <1>4, <1>5, <1>6, <1>7 DEF Kind

\* Only the lua rule that is removed and nginx.conf, written twice, are not safe.
LEMMA CallsCareful == ASSUME NEW t \in Task, ~KeepsNothing(t)  PROVE Careful(Calls(t))
  <1>0. t.kind \in Kind /\ t.dir \in {"conf", "sites"} /\ t.opt \in {"update", "remove"}
    BY TaskAssumption
  <1>1. CASE t.kind = "nginx_main"
    <2>1. t.dir = "sites"
      BY <1>0, <1>1 DEF KeepsNothing
    <2>2. Careful(MainCalls(t))
      BY <2>1 DEF Careful, MainCalls, InstallSite, MakeDir, Test, Delete, Update, Update_, Delete_,
                  Live, Bak
    <2> QED BY <1>1, <2>2 DEF Calls
  <1>2. CASE t.kind = "site"
    <2>1. Careful(SiteCalls(t))
      BY DEF Careful, SiteCalls, InstallSite, MakeDir, Test, Delete, Update, Update_, Delete_,
             Live, Bak
    <2> QED BY <1>2, <2>1 DEF Calls
  <1>3. CASE t.kind = "cache"
    <2>1. Careful(CacheCalls(t))
      BY DEF Careful, CacheCalls, Delete, Update, Update_, Delete_, Live, Bak
    <2> QED BY <1>3, <2>1 DEF Calls
  <1>4. CASE t.kind = "ssl"
    <2>1. Careful(SslCalls(t))
      BY DEF Careful, SslCalls, Delete, Update, Update_, Delete_, Live, Bak, pem, key
    <2> QED BY <1>4, <2>1 DEF Calls
  <1>5. CASE t.kind = "lua"
    <2>1. Careful(LuaCalls(t))
      BY <1>0, <1>5 DEF Careful, LuaCalls, Delete, Update, Update_, Delete_, Live, Bak, KeepsNothing
    <2> QED BY <1>5, <2>1 DEF Calls
  <1>6. CASE t.kind = "errpage"
    <2>1. Careful(ErrpageCalls(t))
      BY DEF Careful, ErrpageCalls, Delete, Update, Update_, Delete_, Live, Bak
    <2> QED BY <1>6, <2>1 DEF Calls
  <1> QED BY <1>0, <1>1, <1>2, <1>3, <1>4, <1>5, <1>6 DEF Kind

-----------------------------------------------------------------------------
(* The file system.                                                        *)

On(d, f, c) == f \in DOMAIN d /\ d[f] = c
FilesOK(d)  == DOMAIN d \subseteq File /\ \A f \in DOMAIN d : d[f] \in Contents

LEMMA RemovedKeeps ==
  ASSUME NEW d, NEW f, NEW g, NEW c, f # g, On(d, f, c)
  PROVE  On(Removed(d, g), f, c)
  BY DEF On, Removed

LEMMA StoredKeeps ==
  ASSUME NEW d, NEW f, NEW g, NEW c, NEW x, f # g, On(d, f, c)
  PROVE  On(Stored(d, g, x), f, c)
  BY DEF On, Stored

LEMMA RenamedKeeps ==
  ASSUME NEW d, NEW f, NEW g, NEW h, NEW c, f # g, f # h, On(d, f, c)
  PROVE  On(Renamed(d, g, h), f, c)
  BY DEF On, Renamed, Stored, Removed

LEMMA RenamedMoves ==
  ASSUME NEW d, NEW g, NEW h, NEW c, On(d, g, c)
  PROVE  On(Renamed(d, g, h), h, c)
  BY DEF On, Renamed, Stored, Removed

LEMMA FilesStayOK ==
  ASSUME NEW d, FilesOK(d), NEW f \in File, NEW g \in File, NEW c \in Contents
  PROVE  FilesOK(Removed(d, f)) /\ FilesOK(Stored(d, f, c)) /\ FilesOK(Renamed(d, f, g))
  <1>1. FilesOK(Removed(d, f))
    BY DEF FilesOK, Removed
  <1>2. FilesOK(Stored(d, f, c))
    BY DEF FilesOK, Stored
  <1>3. FilesOK(Renamed(d, f, g))
    BY DEF FilesOK, Renamed, Stored, Removed
  <1> QED BY <1>1, <1>2, <1>3

-----------------------------------------------------------------------------
(* The parts of the invariant.                                             *)

\* TypeOK and where the task is.
Place ==
  /\ TypeOK
  /\ task # NoTask => last = task /\ step =< Len(Calls(task)) + 1
  /\ phase # "call" => /\ task # NoTask /\ step =< Len(Calls(task))
                       /\ Call.do = "update" /\ Call.content # Empty

\* A file is its backup, or in its place, where the opening finds one that
\* could not be renamed.
There(f) ==
  \/ Moved(f) /\ On(disk, Bak(f), old[f])
  \/ (Moved(f) => phase = "open" /\ Call.file = f) /\ On(disk, f, old[f])

InPlace == \A f \in DOMAIN old : f.baks = 0 /\ f \notin over => There(f)

LEMMA Split == IInv <=> /\ Place /\ OldKept
                        /\ task # NoTask /\ ~KeepsNothing(task) => InPlace
  BY DEF IInv, Place, InPlace, There, Has, On

\* A call that is due is one of the task's.
LEMMA CallInTask ==
  ASSUME Place, task # NoTask, step =< Len(Calls(task))
  PROVE  /\ task \in Task /\ step \in DOMAIN Calls(task) /\ Call = Calls(task)[step]
         /\ Typed(Calls(task))
         /\ step + 1 \in 1..7 /\ step + 1 =< Len(Calls(task)) + 1
         /\ Call.do \in {"delete", "update"} => Call.file \in File /\ Call.file.baks \in 0..1
         /\ Call.do = "update" => Call.content \in Version \cup {Empty}
  <1>1. task \in Task /\ step \in 1..7
    BY DEF Place, TypeOK
  <1>2. Typed(Calls(task))
    BY <1>1, CallsTyped
  <1>3. step \in DOMAIN Calls(task)
    BY <1>1, <1>2 DEF Typed
  <1> QED BY <1>1, <1>2, <1>3 DEF Typed, Call

\* The bounds and the answer, which each action changes alone or not at all.
LEMMA FaultsStay ==
  ASSUME faults \in 0..MaxFaults, NEW x, Fails(x)  PROVE faults' \in 0..MaxFaults
  BY BoundAssumption DEF Fails

-----------------------------------------------------------------------------
(* Every step keeps the place of the task.                                 *)

LEMMA PlaceKept == ASSUME Place, [Next]_vars  PROVE Place'
  <1> DEFINE Others == /\ DOMAIN old \subseteq File /\ \A f \in DOMAIN old : old[f] \in Contents
                     /\ over \subseteq File /\ unwritten \subseteq File
                     /\ last \in Task \cup {NoTask} /\ reply \in {"none", "200", "900", "902"}
                     /\ refused \in BOOLEAN
                     /\ faults \in 0..MaxFaults /\ tasks \in 0..MaxTasks
             Ctl == /\ task \in Task \cup {NoTask} /\ step \in 1..7
                    /\ phase \in {"call", "open", "write"}
                    /\ task # NoTask => last = task /\ step =< Len(Calls(task)) + 1
                    /\ phase # "call" => /\ task # NoTask /\ step =< Len(Calls(task))
                                         /\ Call.do = "update" /\ Call.content # Empty
  <1>0. Place <=> FilesOK(disk) /\ Others /\ Ctl
    BY DEF Place, TypeOK, FilesOK
  <1>1. Place' <=> FilesOK(disk)' /\ Others' /\ Ctl'
    BY DEF Place, TypeOK, FilesOK
  <1>2. FilesOK(disk) /\ Others /\ Ctl
    BY <1>0
  <1> SUFFICES FilesOK(disk)' /\ Others' /\ Ctl'
    BY <1>1
  <1>c. ASSUME task # NoTask, step =< Len(Calls(task)), Continues
        PROVE  Ctl'
    BY <1>c, <1>2, CallInTask DEF Continues, answer
  <1>3. ASSUME NEW t \in Task, Accepts(t)  PROVE FilesOK(disk)' /\ Others' /\ Ctl'
    <2>1. Typed(Calls(t))
      BY CallsTyped
    <2>2. Ctl'
      BY <1>3, <2>1 DEF Accepts, Typed
    <2>3. Others'
      <3>1. /\ old' = disk /\ last' = t /\ reply' = "none" /\ refused' = FALSE /\ faults' = faults
            /\ over' = {} /\ unwritten' = {}
        BY <1>3 DEF Accepts
      <3>2. tasks' \in 0..MaxTasks
        BY <1>3, <1>2, BoundAssumption DEF Accepts
      <3> QED BY <1>2, <3>1, <3>2 DEF FilesOK
    <2> QED BY <1>3, <1>2, <2>2, <2>3 DEF Accepts, FilesOK
  <1>4. CASE Deletes
    <2>1. task # NoTask /\ step =< Len(Calls(task)) /\ Call.file \in File
      BY <1>4, CallInTask DEF Deletes, Due
    <2>2. FilesOK(Removed(disk, Call.file))
      BY <1>2, <2>1 DEF FilesOK, Removed
    <2>3. FilesOK(disk)'
      BY <1>4, <1>2, <2>2 DEF Deletes, FilesOK
    <2>4. Ctl'
      BY <1>4, <2>1, <1>c DEF Deletes
    <2>5. Others'
      <3>1. faults' \in 0..MaxFaults
        BY <1>4, <1>2, FaultsStay DEF Deletes
      <3> QED BY <1>4, <1>2, <3>1 DEF Deletes, Continues, answer, marks
    <2> QED BY <2>3, <2>4, <2>5
  <1>5. CASE MakesDir
    <2>1. Ctl'
      BY <1>5, <1>c DEF MakesDir, Due
    <2> QED BY <1>5, <1>2, <2>1 DEF MakesDir, Continues, answer, marks, bounds, FilesOK
  <1>6. CASE MkdirFails
    BY <1>6, <1>2, FaultsStay DEF MkdirFails, Answers, FilesOK, Due, marks
  <1>7. CASE RefusesEmpty
    BY <1>7, <1>2 DEF RefusesEmpty, Answers, FilesOK, Due, marks, bounds
  <1>8. CASE BacksUp
    <2>1. task # NoTask /\ step =< Len(Calls(task)) /\ Call.file \in File /\ Bak(Call.file) \in File
      BY <1>8, CallInTask, BakIsOther DEF BacksUp, Due
    <2>2. FilesOK(Renamed(disk, Call.file, Bak(Call.file)))
      BY <1>2, <2>1 DEF FilesOK, Renamed, Removed, Stored
    <2>3. FilesOK(disk)'
      BY <1>8, <1>2, <2>2 DEF BacksUp, FilesOK
    <2>4. Ctl'
      BY <1>8, <1>2, <2>1 DEF BacksUp, Due, answer, Call
    <2>5. Others'
      <3>1. faults' \in 0..MaxFaults
        BY <1>8, <1>2, FaultsStay DEF BacksUp
      <3> QED BY <1>8, <1>2, <3>1 DEF BacksUp, answer, marks
    <2> QED BY <2>3, <2>4, <2>5
  <1>9. CASE Opens
    <2>1. task # NoTask /\ step =< Len(Calls(task)) /\ Call.file \in File
      BY <1>9, <1>2, CallInTask DEF Opens
    <2>2. FilesOK(Stored(disk, Call.file, Cut))
      BY <1>2, <2>1 DEF FilesOK, Stored, Contents
    <2>3. FilesOK(disk)'
      BY <1>9, <2>2 DEF Opens, FilesOK
    <2>4. Ctl'
      BY <1>9, <1>2, <2>1 DEF Opens, answer, Call
    <2>5. Others'
      BY <1>9, <1>2, <2>1 DEF Opens, answer, bounds
    <2> QED BY <2>3, <2>4, <2>5
  <1>10. CASE OpenFails
    BY <1>10, <1>2, FaultsStay DEF OpenFails, FilesOK, marks
  <1>11. CASE Writes
    <2>1. /\ task # NoTask /\ step =< Len(Calls(task)) /\ Call.file \in File
          /\ Decoded(Call.content) \in Contents
      BY <1>11, <1>2, CallInTask DEF Writes, Contents, Decoded
    <2>2. FilesOK(Stored(disk, Call.file, Decoded(Call.content)))
      BY <1>2, <2>1 DEF FilesOK, Stored
    <2>3. FilesOK(disk)'
      BY <1>11, <2>2 DEF Writes, FilesOK
    <2>4. Ctl'
      BY <1>11, <2>1, <1>c DEF Writes
    <2>5. Others'
      BY <1>11, <1>2 DEF Writes, Continues, answer, bounds
    <2> QED BY <2>3, <2>4, <2>5
  <1>12. CASE WriteFails
    <2>1. Ctl'
      BY <1>12, <1>2, <1>c DEF WriteFails
    <2>2. Call.file \in File
      BY <1>12, <1>2, CallInTask DEF WriteFails
    <2> QED BY <1>12, <1>2, <2>1, <2>2, FaultsStay DEF WriteFails, Continues, answer, FilesOK
  <1>13. CASE Tests
    <2>1. Ctl'
      BY <1>13, <1>c DEF Tests, Due
    <2> QED BY <1>13, <1>2, <2>1 DEF Tests, Continues, answer, marks, bounds, FilesOK
  <1>14. CASE Ends
    BY <1>14, <1>2 DEF Ends, Answers, FilesOK, marks, bounds
  <1>15. CASE Dies
    BY <1>15, <1>2, FaultsStay DEF Dies, answer, FilesOK, marks
  <1>16. CASE UNCHANGED vars
    BY <1>16, <1>2 DEF vars, running, answer, marks, bounds, FilesOK, Call
  <1> HIDE DEF Others, Ctl
  <1> QED
    BY <1>3, <1>4, <1>5, <1>6, <1>7, <1>8, <1>9, <1>10, <1>11, <1>12, <1>13, <1>14, <1>15, <1>16
    DEF Next, Runs, UpdateFile

-----------------------------------------------------------------------------
(* Every step keeps what was in use in its place or as its backup.         *)

\* A call that renames nothing, or has done so, leaves Moved as it is.
LEMMA MovedContinues ==
  ASSUME Place, task # NoTask, step =< Len(Calls(task)), Continues,
         phase # "call" \/ Call.do # "update", NEW f
  PROVE  Moved(f)' <=> Moved(f)
  <1>1. /\ last = task /\ last' = last /\ step \in DOMAIN Calls(last)
        /\ DOMAIN Calls(last) \subseteq Nat /\ Call = Calls(last)[step]
        /\ step \in Nat
    BY CallInTask DEF Place, Typed, Continues, answer
  <1>2. step' = step + 1 /\ phase' = "call"
    BY DEF Continues
  <1>3. \A i \in DOMAIN Calls(last) : i < step + 1 <=> i < step \/ i = step
    BY <1>1
  <1>4. phase # "call" \/ ~(Calls(last)[step].do = "update")
    BY <1>1
  <1> QED BY <1>1, <1>2, <1>3, <1>4 DEF Moved

\* What a call that is due, or half done, may touch.
LEMMA CallIsCareful ==
  ASSUME Place, task # NoTask, step =< Len(Calls(task)), ~KeepsNothing(task),
         NEW f \in File, f.baks = 0
  PROVE  /\ Call.do = "delete" => Call.file # f /\ (Moved(f) => Call.file # Bak(f))
         /\ Call.do = "update" /\ Call.content # Empty =>
              /\ phase = "call" /\ Moved(f) => Call.file # f /\ Call.file.baks = 0
              /\ phase # "call" /\ ~Moved(f) => Call.file # f
              /\ phase # "call" /\ Moved(f) => Call.file = f \/ Call.file.baks = 0
  <1>1. /\ last = task /\ task \in Task /\ step \in DOMAIN Calls(task)
        /\ Call = Calls(task)[step]
    BY CallInTask DEF Place
  <1>2. Careful(Calls(task))
    BY <1>1, CallsCareful
  <1>3. Call.do = "delete" => Call.file # f
    BY <1>1, <1>2 DEF Careful, Delete_
  <1>4. ASSUME Moved(f), Call.do = "delete"  PROVE Call.file # Bak(f)
    <2>1. PICK i \in DOMAIN Calls(task) :
            Update_(Calls(task)[i]) /\ Calls(task)[i].file = f /\ (i < step \/ i = step)
      BY <1>1, <1>4 DEF Moved, Update_
    <2>2. i # step
      BY <1>1, <1>4, <2>1 DEF Update_
    <2> QED BY <1>1, <1>2, <1>4, <2>1, <2>2 DEF Careful, Delete_
  <1>5. ASSUME Moved(f), Call.do = "update", Call.content # Empty
        PROVE  \/ phase # "call" /\ Call.file = f
               \/ Call.file # f /\ Call.file.baks = 0
    <2>1. PICK i \in DOMAIN Calls(task) :
            /\ Update_(Calls(task)[i]) /\ Calls(task)[i].file = f
            /\ i < step \/ (i = step /\ phase # "call")
      BY <1>1, <1>5 DEF Moved, Update_
    <2>2. CASE i = step /\ phase # "call"
      BY <1>1, <2>1, <2>2
    <2>3. CASE i < step
      BY <1>1, <1>2, <1>5, <2>1, <2>3 DEF Careful, Update_
    <2> QED BY <2>1, <2>2, <2>3
  <1>6. ASSUME ~Moved(f), phase # "call", Call.do = "update", Call.content # Empty
        PROVE  Call.file # f
    BY <1>1, <1>6 DEF Moved
  <1> QED BY <1>3, <1>4, <1>5, <1>6

LEMMA DeletesKeeps ==
  ASSUME Place, InPlace, task # NoTask, ~KeepsNothing(task), Deletes  PROVE InPlace'
  <1>1. step =< Len(Calls(task)) /\ Call.do = "delete" /\ Continues /\ phase = "call"
    BY DEF Deletes, Due
  <1>2. SUFFICES ASSUME NEW f \in DOMAIN old, f.baks = 0, f \notin over
                 PROVE  IF Moved(f)' THEN On(disk', Bak(f), old[f]) ELSE On(disk', f, old[f])
    BY DEF InPlace, There, Deletes, marks
  <1>3. f \in File
    BY <1>2 DEF Place, TypeOK
  <1>4. Moved(f)' <=> Moved(f)
    BY <1>1, MovedContinues
  <1>5. Call.file # f /\ (Moved(f) => Call.file # Bak(f))
    BY <1>1, <1>2, <1>3, CallIsCareful
  <1>6. IF Moved(f) THEN On(disk, Bak(f), old[f]) ELSE On(disk, f, old[f])
    BY <1>1, <1>2 DEF InPlace, There
  <1>7. disk' = Removed(disk, Call.file) \/ disk' = disk
    BY DEF Deletes
  <1>8. CASE Moved(f)
    BY <1>4, <1>5, <1>6, <1>7, <1>8, RemovedKeeps
  <1>9. CASE ~Moved(f)
    BY <1>4, <1>5, <1>6, <1>7, <1>9, RemovedKeeps
  <1> QED BY <1>8, <1>9

\* The rename makes the backup, or leaves the file to the opening; no other is
\* disturbed.
LEMMA BacksUpKeeps ==
  ASSUME Place, InPlace, task # NoTask, ~KeepsNothing(task), BacksUp  PROVE InPlace'
  <1>1. /\ step =< Len(Calls(task)) /\ Call.do = "update" /\ Call.content # Empty
        /\ phase = "call" /\ phase' = "open" /\ step' = step /\ last' = last /\ Call' = Call
        /\ disk' = Renamed(disk, Call.file, Bak(Call.file)) \/ disk' = disk
        /\ old' = old /\ over' = over
    BY DEF BacksUp, Due, answer, marks, Call
  <1>2. SUFFICES ASSUME NEW f \in DOMAIN old, f.baks = 0, f \notin over
                 PROVE  There(f)'
    BY <1>1 DEF InPlace
  <1>3. f \in File /\ Call.file \in File /\ Call.file.baks \in 0..1
    BY <1>1, <1>2, CallInTask DEF Place, TypeOK
  <1>4. Moved(f)' <=> Moved(f) \/ f = Call.file
    <2>1. last = task /\ step \in DOMAIN Calls(last) /\ Call = Calls(last)[step]
      BY <1>1, CallInTask DEF Place
    <2> QED BY <1>1, <2>1 DEF Moved
  <1>5. Moved(f) => Call.file # f /\ Call.file.baks = 0
    BY <1>1, <1>2, <1>3, CallIsCareful
  <1>6. IF Moved(f) THEN On(disk, Bak(f), old[f]) ELSE On(disk, f, old[f])
    BY <1>1, <1>2 DEF InPlace, There
  <1>7. CASE Moved(f)
    <2>1. Bak(f) # Call.file /\ Bak(f) # Bak(Call.file)
      BY <1>2, <1>3, <1>5, <1>7, BakIsOther, BakIsInjective
    <2>2. On(disk', Bak(f), old[f])
      BY <1>1, <1>6, <1>7, <2>1, RenamedKeeps
    <2> QED BY <1>1, <1>4, <1>7, <2>2 DEF There
  <1>8. CASE ~Moved(f) /\ f = Call.file
    <2>1. On(disk', Bak(f), old[f]) \/ On(disk', f, old[f])
      BY <1>1, <1>6, <1>8, RenamedMoves
    <2> QED BY <1>1, <1>4, <1>8, <2>1 DEF There
  <1>9. CASE ~Moved(f) /\ f # Call.file
    <2>1. f # Bak(Call.file)
      BY <1>2, <1>3, BakIsOther
    <2>2. On(disk', f, old[f])
      BY <1>1, <1>6, <1>9, <2>1, RenamedKeeps
    <2> QED BY <1>1, <1>4, <1>9, <2>2 DEF There
  <1> QED BY <1>7, <1>8, <1>9

\* Opening and writing touch only the file that was to be renamed.
LEMMA StoreKeeps ==
  ASSUME Place, InPlace, task # NoTask, ~KeepsNothing(task), phase # "call",
         NEW c, disk' = Stored(disk, Call.file, c), old' = old,
         over \subseteq over', phase = "open" /\ Call.file \in DOMAIN disk => Call.file \in over',
         \A f : Moved(f)' <=> Moved(f)
  PROVE  InPlace'
  <1>1. step =< Len(Calls(task)) /\ Call.do = "update" /\ Call.content # Empty
    BY DEF Place
  <1>2. SUFFICES ASSUME NEW f \in DOMAIN old, f.baks = 0, f \notin over'
                 PROVE  IF Moved(f) THEN On(disk', Bak(f), old[f]) ELSE On(disk', f, old[f])
    BY DEF InPlace, There
  <1>3. f \in File /\ Bak(f) # f /\ Bak(f).baks = 1
    BY <1>2, BakIsOther DEF Place, TypeOK
  <1>4. /\ Moved(f) => Call.file = f \/ Call.file.baks = 0
        /\ ~Moved(f) => Call.file # f
    BY <1>1, <1>2, <1>3, CallIsCareful
  <1>5. IF Moved(f) THEN On(disk, Bak(f), old[f]) ELSE On(disk, f, old[f])
    <2>1. There(f)
      BY <1>2 DEF InPlace
    <2>2. ~(phase = "open" /\ Call.file = f /\ On(disk, f, old[f]))
      BY <1>2 DEF On
    <2> QED BY <2>1, <2>2 DEF There
  <1>6. CASE Moved(f)
    <2>1. Bak(f) # Call.file
      BY <1>3, <1>4, <1>6
    <2> QED BY <1>5, <1>6, <2>1, StoredKeeps
  <1>7. CASE ~Moved(f)
    BY <1>4, <1>5, <1>7, StoredKeeps
  <1> QED BY <1>6, <1>7

LEMMA InitOK == Init => IInv
  <1> SUFFICES ASSUME Init  PROVE IInv
    OBVIOUS
  <1>1. FilesOK(disk)
    <2>1. /\ Live("conf", "nginx") \in File /\ Live("sites", "site") \in File
          /\ Live("conf", "cache") \in File /\ pem \in File /\ key \in File
          /\ Live("lua", "lua") \in File /\ Live("html", "html") \in File
      BY LiveIsFile DEF Name, pem, key
    <2> QED BY <2>1 DEF Init, FilesOK, Contents
  <1>2. faults \in 0..MaxFaults /\ tasks \in 0..MaxTasks
    BY BoundAssumption DEF Init
  <1>3. old = disk /\ task = NoTask /\ step = 1 /\ phase = "call" /\ last = NoTask
        /\ reply = "none" /\ refused = FALSE /\ over = {} /\ unwritten = {}
    BY DEF Init
  <1>4. Place
    <2>1. TypeOK
      <3>1. DOMAIN old \subseteq File /\ \A f \in DOMAIN old : old[f] \in Contents
        BY <1>1, <1>3 DEF FilesOK
      <3>2. step \in 1..7 /\ phase \in {"call", "open", "write"} /\ last \in Task \cup {NoTask}
            /\ task \in Task \cup {NoTask} /\ reply \in {"none", "200", "900", "902"}
        BY <1>3
      <3>3. refused \in BOOLEAN
        BY <1>3
      <3>4. over \subseteq File /\ unwritten \subseteq File
        BY <1>3
      <3> QED BY <1>1, <1>2, <3>1, <3>2, <3>3, <3>4 DEF TypeOK, FilesOK
    <2> QED BY <1>3, <2>1 DEF Place
  <1> QED BY <1>3, <1>4, Split DEF OldKept

\* While a task runs, InPlace says more than OldKept.
LEMMA InPlaceIsKept ==
  ASSUME InPlace  PROVE OldKept
  BY DEF InPlace, There, OldKept, Has, On

LEMMA RunningKept ==
  ASSUME IInv, Next, task' # NoTask, ~KeepsNothing(task')  PROVE InPlace'
  <1>1. Place /\ Place' /\ (task # NoTask /\ ~KeepsNothing(task) => InPlace)
    BY Split, PlaceKept
  <1>2. ASSUME NEW t \in Task, Accepts(t)  PROVE InPlace'
    <2>1. last' = t /\ step' = 1 /\ phase' = "call" /\ old' = disk /\ disk' = disk
      BY <1>2 DEF Accepts
    <2>2. DOMAIN Calls(t) \subseteq Nat \ {0}
      BY CallsTyped DEF Typed
    <2>3. \A f : ~Moved(f)'
      BY <2>1, <2>2 DEF Moved
    <2> QED BY <2>1, <2>3 DEF InPlace, There, On
  <1>3. ASSUME Runs  PROVE task # NoTask /\ task' = task /\ InPlace
    <2>1. task # NoTask
      BY <1>1, <1>3 DEF Runs, UpdateFile, Deletes, MakesDir, MkdirFails, RefusesEmpty, BacksUp, Opens,
        OpenFails, Writes, WriteFails, Tests, Ends, Dies, Due, Place
    <2>2. task' = task
      BY <1>3 DEF Runs, UpdateFile, Deletes, MakesDir, MkdirFails, RefusesEmpty, BacksUp, Opens,
        OpenFails, Writes, WriteFails, Tests, Ends, Dies, Answers, Continues
    <2> QED BY <1>1, <2>1, <2>2
  <1>4. CASE Deletes
    BY <1>1, <1>3, <1>4, DeletesKeeps DEF Runs
  <1>5. CASE BacksUp
    BY <1>1, <1>3, <1>5, BacksUpKeeps DEF Runs, UpdateFile
  <1>6. CASE Opens
    <2>1. \A f : Moved(f)' <=> Moved(f)
      BY <1>6 DEF Opens, Moved, answer
    <2>2. over \subseteq over' /\ (Call.file \in DOMAIN disk => Call.file \in over')
      BY <1>6 DEF Opens
    <2> QED BY <1>1, <1>3, <1>6, <2>1, <2>2, StoreKeeps DEF Opens, Runs, UpdateFile
  <1>7. CASE Writes
    <2>1. Continues /\ step =< Len(Calls(task)) /\ phase # "call"
      BY <1>1, <1>7 DEF Writes, Place
    <2>2. \A f : Moved(f)' <=> Moved(f)
      BY <1>1, <1>3, <1>7, <2>1, MovedContinues DEF Runs, UpdateFile
    <2> QED BY <1>1, <1>3, <1>7, <2>1, <2>2, StoreKeeps DEF Writes, Runs, UpdateFile
  <1>8. ASSUME Runs, Continues, step =< Len(Calls(task)), phase # "call" \/ Call.do # "update",
               phase # "open", UNCHANGED <<disk, old, over>>
        PROVE  InPlace'
    <2>1. \A f : Moved(f)' <=> Moved(f)
      BY <1>1, <1>3, <1>8, MovedContinues
    <2> QED BY <1>3, <1>8, <2>1 DEF InPlace, There, On
  <1>9. CASE WriteFails
    BY <1>1, <1>8, <1>9 DEF WriteFails, Place, Runs, UpdateFile
  <1>10. CASE MakesDir
    BY <1>8, <1>10 DEF MakesDir, Due, Runs, marks
  <1>11. CASE Tests
    BY <1>8, <1>11 DEF Tests, Due, Runs, marks
  <1>12. CASE MkdirFails \/ RefusesEmpty \/ OpenFails \/ Ends \/ Dies
    BY <1>12 DEF MkdirFails, RefusesEmpty, OpenFails, Ends, Dies, Answers
  <1> QED
    BY <1>2, <1>4, <1>5, <1>6, <1>7, <1>9, <1>10, <1>11, <1>12 DEF Next, Runs, UpdateFile

LEMMA StepOK == IInv /\ [Next]_vars => IInv'
  <1> SUFFICES ASSUME IInv, [Next]_vars  PROVE IInv'
    OBVIOUS
  <1>1. Place'
    BY Split, PlaceKept
  <1>2. CASE UNCHANGED vars
    <2>1. \A f : Moved(f)' <=> Moved(f)
      BY <1>2 DEF vars, running, answer, Moved
    <2>2. OldKept' /\ (task' # NoTask /\ ~KeepsNothing(task') => InPlace')
      BY <1>2, <2>1, Split DEF vars, running, answer, marks, OldKept, InPlace, There, On, Has, Call
    <2> QED BY <1>1, <2>2 DEF IInv, Place, InPlace, There, Has, On
  <1>3. CASE Next
    <2>1. task' # NoTask /\ ~KeepsNothing(task') => InPlace'
      BY <1>3, RunningKept
    <2>2. OldKept'
      <3>1. CASE task' # NoTask
        BY <1>1, <2>1, <3>1, InPlaceIsKept DEF Place, OldKept, InPlace, There, Has, On
      <3>2. CASE task' = NoTask
        <4>1. UNCHANGED <<disk, old, over, last>>
          BY <1>3, <3>2, TaskAssumption, Split DEF Next, Runs, UpdateFile, Accepts, Deletes, MakesDir,
            MkdirFails, RefusesEmpty, BacksUp, Opens, OpenFails, Writes, WriteFails, Tests, Ends, Dies,
            Due, Continues, Answers, answer, marks, Place
        <4> QED BY <4>1, Split DEF OldKept, Has
      <3> QED BY <3>1, <3>2
    <2> QED BY <1>1, <2>1, <2>2 DEF IInv, Place, InPlace, There, Has, On
  <1> QED BY <1>2, <1>3

-----------------------------------------------------------------------------
(* What an update is to install is there once its call is behind.          *)

\* Call i installs c as f, and no later call touches f.
Installer(cs, i, f, c) ==
  /\ f \in File /\ f.baks = 0
  /\ i \in DOMAIN cs /\ cs[i].do = "update" /\ cs[i].file = f /\ cs[i].content = c
  /\ \A j \in DOMAIN cs : j > i =>
       /\ cs[j].do = "delete" => cs[j].file # f
       /\ cs[j].do = "update" /\ cs[j].content # Empty => cs[j].file # f

Good(f, c) == On(disk, f, IF f \in unwritten THEN Cut ELSE Decoded(c))

Claims(t) == t.opt = "update" /\ ~(t.kind = "site" /\ t.content = Empty)

\* Every claim of DoneInstalls has its call; nginx.conf in "conf" has two, of
\* which the second counts, and without content none is passed.
LEMMA CallsInstall ==
  ASSUME NEW t \in Task, Claims(t), NEW p \in Installs(t)
  PROVE  \E i \in DOMAIN Calls(t) : Installer(Calls(t), i, p[1], p[2])
  <1>0. /\ t.kind \in Kind /\ t.dir \in {"conf", "sites"}
        /\ t.kind = "site" => t.dir = "sites"
    BY TaskAssumption
  <1>1. ASSUME NEW d \in {"conf", "sites", "cert", "lua", "html"}, NEW n \in Name
        PROVE  Live(d, n) \in File /\ Live(d, n).baks = 0 /\ Bak(Live(d, n)) # Live(d, n)
               /\ Bak(Live(d, n)).baks = 1
    BY LiveIsFile
  <1>2. CASE t.kind = "nginx_main"
    <2> DEFINE f == Live("conf", "nginx")
    <2>1. p[1] = f /\ p[2] = t.content
      BY <1>2 DEF Installs
    <2>2. f \in File /\ f.baks = 0
      BY <1>1 DEF Name
    <2>3. /\ Bak(Live("conf", "nginx_main")).baks = 1 /\ Bak(Live(t.dir, "nginx")).baks = 1
          /\ Bak(Live("conf", "nginx")).baks = 1
      BY <1>0, <1>1 DEF Name
    <2>4. CASE t.dir = "conf" /\ t.content # Empty
      <3>1. Installer(MainCalls(t), 5, f, t.content)
        BY <2>2, <2>3, <2>4 DEF Installer, MainCalls, InstallSite, MakeDir, Test, Delete, Update
      <3>2. 5 \in DOMAIN MainCalls(t)
        BY DEF MainCalls
      <3> QED BY <1>2, <2>1, <3>1, <3>2 DEF Calls
    <2>5. CASE t.dir = "sites" \/ t.content = Empty
      <3>1. t.dir = "sites" => Live(t.dir, "nginx") # f
        BY DEF Live
      <3>2. Installer(MainCalls(t), 2, f, t.content)
        BY <2>2, <2>3, <2>5, <3>1 DEF Installer, MainCalls, InstallSite, MakeDir, Test, Delete, Update
      <3>3. 2 \in DOMAIN MainCalls(t)
        BY DEF MainCalls
      <3> QED BY <1>2, <2>1, <3>2, <3>3 DEF Calls
    <2> QED BY <1>0, <2>4, <2>5
  <1>3. CASE t.kind = "site"
    <2> DEFINE f == Live("sites", "site")
    <2>1. p[1] = f /\ p[2] = t.content /\ t.dir = "sites" /\ t.content # Empty
      BY <1>0, <1>3 DEF Installs, Claims
    <2>2. f \in File /\ f.baks = 0
      BY <1>1 DEF Name
    <2>3. Installer(SiteCalls(t), 3, f, t.content)
      BY <2>1, <2>2 DEF Installer, SiteCalls, InstallSite, MakeDir, Test, Delete, Update
    <2>4. 3 \in DOMAIN SiteCalls(t)
      BY DEF SiteCalls
    <2> QED BY <1>3, <2>1, <2>3, <2>4 DEF Calls
  <1>4. CASE t.kind = "ssl"
    <2>1. pem \in File /\ pem.baks = 0 /\ key \in File /\ key.baks = 0 /\ pem # key
      BY <1>1 DEF Name, pem, key, Live
    <2> DEFINE cs == << Delete(Bak(pem)), Delete(Bak(key)), Update(pem, t.content), Update(key, t.extra) >>
    <2>2. Calls(t) = cs
      BY <1>4 DEF Calls, SslCalls, Claims
    <2>3. Installer(cs, 3, pem, t.content) /\ 3 \in DOMAIN cs
      BY <2>1 DEF Installer, Delete, Update
    <2>4. Installer(cs, 4, key, t.extra) /\ 4 \in DOMAIN cs
      BY <2>1 DEF Installer, Delete, Update
    <2>5. (p[1] = pem /\ p[2] = t.content) \/ (p[1] = key /\ p[2] = t.extra)
      BY <1>4 DEF Installs
    <2> HIDE DEF cs
    <2> QED BY <2>2, <2>3, <2>4, <2>5
  <1>5. CASE t.kind = "lua"
    <2> DEFINE f == Live("lua", "lua")
    <2>1. p[1] = f /\ p[2] = t.content /\ f \in File /\ f.baks = 0
      BY <1>1, <1>5 DEF Installs, Name
    <2>2. Installer(LuaCalls(t), 2, f, t.content) /\ 2 \in DOMAIN LuaCalls(t)
      BY <2>1 DEF Installer, LuaCalls, Delete, Update, Claims
    <2> QED BY <1>5, <2>1, <2>2 DEF Calls
  <1>6. CASE t.kind = "errpage"
    <2> DEFINE f == Live("html", "html")
    <2>1. p[1] = f /\ p[2] = t.content /\ f \in File /\ f.baks = 0
      BY <1>1, <1>6 DEF Installs, Name
    <2>2. Installer(ErrpageCalls(t), 2, f, t.content) /\ 2 \in DOMAIN ErrpageCalls(t)
      BY <2>1 DEF Installer, ErrpageCalls, Delete, Update, Claims
    <2> QED BY <1>6, <2>1, <2>2 DEF Calls
  <1>7. CASE t.kind = "cache"
    BY <1>7 DEF Installs
  <1> QED BY <1>0, <1>2, <1>3, <1>4, <1>5, <1>6, <1>7 DEF Kind

\* A file that was opened is cut off until it is written, and what a call that
\* is behind was to install is there.
Behind ==
  /\ phase = "write" => On(disk, Call.file, Cut)
  /\ task # NoTask => reply = "none" /\
       \A i \in Nat : \A f, c : Installer(Calls(task), i, f, c) /\ step > i => Good(f, c)

\* What was behind stays good when the call that is due leaves the file alone.
LEMMA BehindStays ==
  ASSUME Behind, task # NoTask, step \in DOMAIN Calls(task), Call = Calls(task)[step],
         \A f, c : f \in File /\ f.baks = 0 /\ Good(f, c)
                   /\ (Call.do = "delete" => Call.file # f)
                   /\ (Call.do = "update" /\ Call.content # Empty => Call.file # f) => Good(f, c)',
         NEW i \in Nat, NEW f, NEW c, Installer(Calls(task), i, f, c), step > i
  PROVE  Good(f, c)'
  <1>1. Good(f, c)
    BY DEF Behind
  <1>2. /\ Call.do = "delete" => Call.file # f
        /\ Call.do = "update" /\ Call.content # Empty => Call.file # f
        /\ f \in File /\ f.baks = 0
    BY DEF Installer
  <1> QED BY <1>1, <1>2

LEMMA BehindKept ==
  ASSUME Place, Behind, [Next]_vars  PROVE Behind'
  <1> DEFINE Safe(f) == /\ f \in File /\ f.baks = 0
                        /\ Call.do = "delete" => Call.file # f
                        /\ Call.do = "update" /\ Call.content # Empty => Call.file # f
  \* A step inside a call: nothing new is behind.
  <1>1. ASSUME task # NoTask, step =< Len(Calls(task)), task' = task, reply' = reply, step' = step,
               phase' = "write" => On(disk', Call.file, Cut),
               \A f, c : Safe(f) /\ Good(f, c) => Good(f, c)'
        PROVE  Behind'
    <2>1. step \in DOMAIN Calls(task) /\ Call = Calls(task)[step] /\ Call' = Call
      BY <1>1, CallInTask DEF Call
    <2>2. \A i \in Nat : \A f, c : Installer(Calls(task), i, f, c) /\ step > i => Good(f, c)'
      BY <1>1, <2>1, BehindStays
    <2> QED BY <1>1, <2>1, <2>2 DEF Behind
  \* A step that ends a call: what the call installs is there.
  <1>2. ASSUME task # NoTask, step =< Len(Calls(task)), Continues,
               \A f, c : Call.do = "update" /\ f = Call.file /\ c = Call.content => Good(f, c)',
               \A f, c : Safe(f) /\ Good(f, c) => Good(f, c)'
        PROVE  Behind'
    <2>1. step \in DOMAIN Calls(task) /\ Call = Calls(task)[step] /\ step \in Nat
      BY <1>2, CallInTask DEF Typed
    <2>2. task' = task /\ step' = step + 1 /\ phase' = "call" /\ reply' = reply
      BY <1>2 DEF Continues, answer
    <2>3. ASSUME NEW i \in Nat, NEW f, NEW c, Installer(Calls(task), i, f, c), step + 1 > i
          PROVE  Good(f, c)'
      <3>1. CASE step > i
        BY <1>2, <2>1, <2>3, <3>1, BehindStays
      <3>2. CASE i = step
        BY <1>2, <2>1, <2>3, <3>2 DEF Installer
      <3> QED BY <2>1, <2>3, <3>1, <3>2
    <2> QED BY <1>2, <2>2, <2>3 DEF Behind
  \* A step that ends the task.
  <1>3. ASSUME task' = NoTask, phase' # "write"  PROVE Behind'
    BY <1>3 DEF Behind
  <1>4. ASSUME disk' = disk, unwritten' = unwritten  PROVE \A f, c : Good(f, c) => Good(f, c)'
    BY <1>4 DEF Good, On
  <1>5. ASSUME NEW t \in Task, Accepts(t)  PROVE Behind'
    <2>1. task' = t /\ step' = 1 /\ phase' = "call" /\ reply' = "none"
      BY <1>5 DEF Accepts
    <2>2. \A i \in DOMAIN Calls(t) : ~(1 > i)
      BY CallsTyped DEF Typed
    <2> QED BY <2>1, <2>2 DEF Behind, Installer
  <1>6. CASE Deletes
    <2>1. /\ task # NoTask /\ step =< Len(Calls(task)) /\ Call.do = "delete" /\ Continues
          /\ disk' = Removed(disk, Call.file) \/ disk' = disk
          /\ unwritten' = unwritten
      BY <1>6 DEF Deletes, Due, marks
    <2>2. \A f, c : Safe(f) /\ Good(f, c) => Good(f, c)'
      BY <2>1, RemovedKeeps DEF Good
    <2> QED BY <1>2, <2>1, <2>2
  <1>7. CASE MakesDir \/ Tests
    <2>1. /\ task # NoTask /\ step =< Len(Calls(task)) /\ Call.do # "update" /\ Continues
          /\ disk' = disk /\ unwritten' = unwritten
      BY <1>7 DEF MakesDir, Tests, Due, marks
    <2> QED BY <1>2, <1>4, <2>1
  <1>8. CASE MkdirFails \/ RefusesEmpty \/ Ends
    <2>1. task' = NoTask /\ phase' = phase /\ phase = "call"
      BY <1>8 DEF MkdirFails, RefusesEmpty, Ends, Due, Answers
    <2> QED BY <1>3, <2>1
  <1>9. CASE OpenFails \/ Dies
    BY <1>3, <1>9 DEF OpenFails, Dies
  <1>10. CASE BacksUp
    <2>1. /\ task # NoTask /\ step =< Len(Calls(task)) /\ task' = task /\ step' = step
          /\ reply' = reply /\ phase' = "open" /\ Call.do = "update" /\ Call.content # Empty
          /\ disk' = Renamed(disk, Call.file, Bak(Call.file)) \/ disk' = disk
          /\ unwritten' = unwritten
      BY <1>10 DEF BacksUp, Due, answer, marks
    <2>2. Bak(Call.file).baks # 0
      BY <2>1, CallInTask, BakIsOther
    <2>3. \A f, c : Safe(f) /\ Good(f, c) => Good(f, c)'
      <3>1. \A f, c : Safe(f) /\ On(disk, f, c) => On(disk', f, c)
        BY <2>1, <2>2, RenamedKeeps
      <3> QED BY <2>1, <3>1 DEF Good
    <2> QED BY <1>1, <2>1, <2>3
  <1>11. ASSUME NEW x, phase # "call", disk' = Stored(disk, Call.file, x),
                \A f : f # Call.file => (f \in unwritten' <=> f \in unwritten)
         PROVE  \A f, c : Safe(f) /\ Good(f, c) => Good(f, c)'
    <2>1. Call.do = "update" /\ Call.content # Empty
      BY <1>11 DEF Place
    <2>2. \A f, c : Safe(f) /\ On(disk, f, c) => On(disk', f, c)
      BY <1>11, <2>1, StoredKeeps
    <2> QED BY <1>11, <2>1, <2>2 DEF Good
  <1>12. CASE Opens
    <2>1. /\ task # NoTask /\ step =< Len(Calls(task)) /\ task' = task /\ step' = step
          /\ reply' = reply /\ disk' = Stored(disk, Call.file, Cut) /\ phase # "call"
          /\ unwritten' = unwritten
      BY <1>12 DEF Opens, answer, Place
    <2>2. On(disk', Call.file, Cut)
      BY <2>1 DEF On, Stored
    <2>3. \A f, c : Safe(f) /\ Good(f, c) => Good(f, c)'
      BY <1>11, <2>1
    <2> QED BY <1>1, <2>1, <2>2, <2>3
  <1>13. CASE Writes
    <2>1. /\ task # NoTask /\ step =< Len(Calls(task)) /\ Continues
          /\ disk' = Stored(disk, Call.file, Decoded(Call.content)) /\ phase # "call"
          /\ unwritten' = unwritten \ {Call.file}
      BY <1>13 DEF Writes, Place
    <2>2. On(disk', Call.file, Decoded(Call.content))
      BY <2>1 DEF On, Stored
    <2>3. \A f, c : Safe(f) /\ Good(f, c) => Good(f, c)'
      BY <1>11, <2>1
    <2>4. \A f, c : f = Call.file /\ c = Call.content => Good(f, c)'
      BY <2>1, <2>2 DEF Good
    <2> QED BY <1>2, <2>1, <2>3, <2>4
  <1>14. CASE WriteFails
    <2>1. /\ task # NoTask /\ step =< Len(Calls(task)) /\ Continues /\ disk' = disk
          /\ phase = "write" /\ unwritten' = unwritten \cup {Call.file}
          /\ Call.do = "update" /\ Call.content # Empty
      BY <1>14 DEF WriteFails, Place
    <2>2. On(disk', Call.file, Cut)
      BY <2>1 DEF Behind
    <2>3. \A f, c : f = Call.file => Good(f, c)'
      BY <2>1, <2>2 DEF Good
    <2>4. \A f, c : Safe(f) /\ Good(f, c) => Good(f, c)'
      BY <2>1 DEF Good
    <2> QED BY <1>2, <2>1, <2>3, <2>4
  <1>15. CASE UNCHANGED vars
    BY <1>15 DEF vars, running, answer, marks, Behind, Good, On, Call
  <1> HIDE DEF Safe
  <1> QED
    BY <1>5, <1>6, <1>7, <1>8, <1>9, <1>10, <1>12, <1>13, <1>14, <1>15 DEF Next, Runs, UpdateFile

LEMMA InstallsGood ==
  DoneInstalls <=> (reply = "200" /\ Claims(last) => \A p \in Installs(last) : Good(p[1], p[2]))
  BY DEF DoneInstalls, Claims, Good, Has, On

LEMMA DoneKept ==
  ASSUME Place, Behind, DoneInstalls, task = NoTask \/ reply = "none", [Next]_vars
  PROVE  DoneInstalls' /\ (task' = NoTask \/ reply' = "none")
  <1>1. CASE Ends
    <2>1. /\ task # NoTask /\ task \in Task /\ step > Len(Calls(task)) /\ last = task
          /\ last' = last /\ disk' = disk /\ task' = NoTask /\ step \in Nat
          /\ unwritten' = unwritten
      BY <1>1 DEF Ends, Answers, Place, TypeOK, marks
    <2>2. ASSUME Claims(task), NEW p \in Installs(task)  PROVE Good(p[1], p[2])
      <3>1. PICK i \in DOMAIN Calls(task) : Installer(Calls(task), i, p[1], p[2])
        BY <2>1, <2>2, CallsInstall
      <3>2. i \in Nat /\ step > i
        BY <2>1, CallsTyped DEF Typed
      <3> QED BY <2>1, <3>1, <3>2 DEF Behind
    <2>3. Claims(last') => \A p \in Installs(last') : Good(p[1], p[2])'
      BY <2>1, <2>2 DEF Good, On
    <2>4. DoneInstalls'
      BY <2>3 DEF DoneInstalls, Claims, Good, Has, On
    <2> QED BY <2>1, <2>4
  <1>2. ASSUME NEW t \in Task, Accepts(t)  PROVE reply' = "none"
    BY <1>2 DEF Accepts
  <1>3. CASE MkdirFails \/ RefusesEmpty \/ OpenFails
    <2>1. task' = NoTask /\ reply' # "200"
      BY <1>3 DEF MkdirFails, RefusesEmpty, OpenFails, Answers
    <2> QED BY <2>1 DEF DoneInstalls
  <1>4. CASE Deletes \/ MakesDir \/ BacksUp \/ Opens \/ Writes \/ WriteFails \/ Tests
    <2>1. task # NoTask /\ reply' = reply
      BY <1>4 DEF Deletes, MakesDir, BacksUp, Opens, Writes, WriteFails, Tests, Due, Place, Continues, answer
    <2> QED BY <2>1 DEF DoneInstalls
  <1>5. CASE Dies
    <2>1. reply' = reply /\ task # NoTask /\ task' = NoTask
      BY <1>5 DEF Dies, answer
    <2> QED BY <2>1 DEF DoneInstalls
  <1>6. CASE UNCHANGED vars
    BY <1>6 DEF vars, running, answer, marks, DoneInstalls, Has
  <1>7. reply' = "none" => DoneInstalls'
    BY DEF DoneInstalls
  <1> QED BY <1>1, <1>2, <1>3, <1>4, <1>5, <1>6, <1>7 DEF Next, Runs, UpdateFile

-----------------------------------------------------------------------------
(* The theorems.                                                           *)

\* The invariant of every behaviour: each file is in its place until the task
\* renames it, and is its backup from then on; one that it cannot rename is in its
\* place until it is opened.
THEOREM Invariance == Spec => []IInv
  BY InitOK, StepOK, PTL DEF Spec

\* The disk, the calls and the answers keep their types, for every set of tasks.
THEOREM TypeCorrect == Spec => []TypeOK
  <1>1. IInv => TypeOK
    BY DEF IInv
  <1> QED BY <1>1, Invariance, PTL

\* Whatever fails, and wherever the worker dies, what was in use when a task
\* began is on disk, as it was or as its backup, but for a file whose rename
\* failed and that was opened nevertheless: nodes_nginx_update_file backs up
\* before it opens, and no task deletes a backup it made.
THEOREM OldIsKept == Spec => []OldKept
  <1>1. IInv => OldKept
    BY DEF IInv
  <1> QED BY <1>1, Invariance, PTL

\* What was answered with 200 is installed, both files of a certificate too: whole,
\* but for a file that was not written and a content that does not decode, which
\* leave a cut one (the processes of each kind in nodes_tasks.cpp).  No call of a
\* task undoes what one before it installed, and none that fails to open is
\* passed over.
THEOREM DoneIsInstalled == Spec => []DoneInstalls
  <1> DEFINE DInv == IInv /\ Behind /\ DoneInstalls /\ (task = NoTask \/ reply = "none")
  <1>1. Init => DInv
    <2>1. Init => Behind /\ DoneInstalls /\ task = NoTask
      BY DEF Init, Behind, DoneInstalls
    <2> QED BY <2>1, InitOK
  <1>2. DInv /\ [Next]_vars => DInv'
    <2> SUFFICES ASSUME DInv, [Next]_vars  PROVE DInv'
      OBVIOUS
    <2>1. Place
      BY Split
    <2>2. IInv'
      BY StepOK
    <2>3. Behind'
      BY <2>1, BehindKept
    <2>4. DoneInstalls' /\ (task' = NoTask \/ reply' = "none")
      BY <2>1, DoneKept
    <2> QED BY <2>2, <2>3, <2>4
  <1>3. DInv => DoneInstalls
    OBVIOUS
  <1> HIDE DEF DInv
  <1> QED BY <1>1, <1>2, <1>3, PTL DEF Spec

-----------------------------------------------------------------------------
(* The conversions: the places in a text made of groups.                     *)

\* A set of numbers has a least member.
LEMMA LeastMember ==
  ASSUME NEW T, T \subseteq Nat, T # {}
  PROVE  \E x \in T : \A y \in T : x <= y
<1>1. IsWellFoundedOn(OpToRel(<, Nat), Nat)
  BY NatLessThanWellFounded
<1>2. PICK x \in T : \A y \in T : ~ (<<y, x>> \in OpToRel(<, Nat))
  BY <1>1, WFMin
<1>3. \A y \in T : x <= y
  <2>1. ASSUME NEW y \in T  PROVE x <= y
    <3>1. ~ (y < x)
      BY <1>2 DEF OpToRel
    <3>2. QED  BY <3>1
  <2>2. QED  BY <2>1
<1>4. QED  BY <1>3

\* h joins the first n sequences of s, one after another.
Flattening(h, s, n) == h = [i \in 1 .. n |-> IF i = 1 THEN s[i] ELSE h[i - 1] \o s[i]]

LEMMA FlatteningIs ==
  ASSUME NEW s, NEW n \in Nat
  PROVE  \E h : Flattening(h, s, n)
<1> DEFINE T == {m \in Nat : ~ \E h : Flattening(h, s, m)}
<1> SUFFICES ASSUME T # {}  PROVE FALSE
  OBVIOUS
<1>1. PICK m \in T : \A y \in T : m <= y
  <2>1. T \subseteq Nat
    OBVIOUS
  <2> HIDE DEF T
  <2>2. QED  BY <2>1, LeastMember
<1>2. m # 0
  <2>1. Flattening(<<>>, s, 0)
    BY DEF Flattening
  <2>2. QED  BY <2>1
<1>3. m \in Nat \ {0} /\ m - 1 \in Nat /\ m - 1 \notin T
  BY <1>1, <1>2
<1>4. PICK g : Flattening(g, s, m - 1)
  BY <1>3
<1> DEFINE h == [i \in 1 .. m |-> IF i < m THEN g[i] ELSE IF m = 1 THEN s[m] ELSE g[m - 1] \o s[m]]
           k == [i \in 1 .. m |-> IF i = 1 THEN s[i] ELSE h[i - 1] \o s[i]]
<1>5. g = [i \in 1 .. m - 1 |-> IF i = 1 THEN s[i] ELSE g[i - 1] \o s[i]]
  BY <1>4 DEF Flattening
<1>6. ASSUME NEW i \in 1 .. m  PROVE h[i] = IF i = 1 THEN s[i] ELSE h[i - 1] \o s[i]
  <2>1. CASE i < m
    <3>1. i \in 1 .. m - 1 /\ h[i] = g[i]
      BY <1>3, <2>1
    <3>2. g[i] = IF i = 1 THEN s[i] ELSE g[i - 1] \o s[i]
      BY <1>5, <3>1
    <3>3. i # 1 => i - 1 \in 1 .. m /\ i - 1 < m
      BY <1>3
    <3>4. i # 1 => h[i - 1] = g[i - 1]
      BY <3>3
    <3>5. QED  BY <3>1, <3>2, <3>4
  <2>2. CASE i = m
    <3>1. h[i] = IF m = 1 THEN s[m] ELSE g[m - 1] \o s[m]
      BY <1>3, <2>2
    <3>2. m # 1 => m - 1 \in 1 .. m /\ m - 1 < m
      BY <1>3
    <3>3. m # 1 => h[m - 1] = g[m - 1]
      BY <3>2
    <3>4. QED  BY <3>1, <3>3, <2>2
  <2>3. QED  BY <2>1, <2>2, <1>3
<1>7. h = k
  <2>1. h = [i \in 1 .. m |-> h[i]]
    OBVIOUS
  <2>2. \A i \in 1 .. m : h[i] = k[i]
    <3> HIDE DEF h
    <3>1. QED  BY <1>6
  <2> HIDE DEF h, k
  <2>3. k = [i \in 1 .. m |-> k[i]]
    BY DEF k
  <2>4. QED  BY <2>1, <2>2, <2>3
<1>8. Flattening(h, s, m)
  BY <1>7 DEF Flattening
<1> HIDE DEF h
<1>9. QED  BY <1>1, <1>8

LEMMA Flattened ==
  ASSUME NEW n \in Nat, NEW s, NEW h, Flattening(h, s, n), NEW i \in 1 .. n
  PROVE  h[i] = IF i = 1 THEN s[i] ELSE h[i - 1] \o s[i]
<1>1. PICK k : k = h /\ h = [j \in 1 .. n |-> IF j = 1 THEN s[j] ELSE k[j - 1] \o s[j]]
  BY DEF Flattening
<1>2. QED  BY <1>1

LEMMA FlatteningSame ==
  ASSUME NEW n \in Nat, NEW s, NEW t, \A i \in 1 .. n : t[i] = s[i],
         NEW h, NEW k, Flattening(h, s, n), Flattening(k, t, n + 1), NEW T,
         \A i \in 1 .. n : s[i] \in Seq(T)
  PROVE  \A i \in 1 .. n : h[i] = k[i] /\ h[i] \in Seq(T)
<1> DEFINE D == {i \in 1 .. n : ~ (h[i] = k[i] /\ h[i] \in Seq(T))}
<1> SUFFICES ASSUME D # {}  PROVE FALSE
  OBVIOUS
<1>1. PICK i \in D : \A y \in D : i <= y
  <2>1. D \subseteq Nat
    OBVIOUS
  <2> HIDE DEF D
  <2>2. QED  BY <2>1, LeastMember
<1>2. i \in 1 .. n /\ i \in 1 .. n + 1 /\ i \in Nat /\ i >= 1 /\ n + 1 \in Nat
  BY <1>1
<1>3. h[i] = (IF i = 1 THEN s[i] ELSE h[i - 1] \o s[i]) /\ k[i] = IF i = 1 THEN t[i] ELSE k[i - 1] \o t[i]
  BY <1>2, Flattened
<1>4. t[i] = s[i] /\ s[i] \in Seq(T)
  BY <1>2
<1>5. i # 1 => h[i - 1] = k[i - 1] /\ h[i - 1] \in Seq(T)
  <2>1. i # 1 => i - 1 \in 1 .. n /\ ~ (i <= i - 1)
    BY <1>2
  <2>2. QED  BY <2>1, <1>1
<1>6. h[i] = k[i] /\ h[i] \in Seq(T)
  BY <1>3, <1>4, <1>5
<1>7. QED  BY <1>1, <1>6

LEMMA FlattenIs ==
  ASSUME NEW s, Len(s) \in Nat
  PROVE  /\ Len(s) = 0 => FlattenSeq(s) = s
         /\ Len(s) # 0 => \E h : Flattening(h, s, Len(s)) /\ FlattenSeq(s) = h[Len(s)]
<1> DEFINE h == CHOOSE k : k = [i \in 1 .. Len(s) |-> IF i = 1 THEN s[i] ELSE k[i - 1] \o s[i]]
<1>1. Len(s) # 0 => FlattenSeq(s) = h[Len(s)]
  BY DEF FlattenSeq
<1>2. \E k : k = [i \in 1 .. Len(s) |-> IF i = 1 THEN s[i] ELSE k[i - 1] \o s[i]]
  BY FlatteningIs DEF Flattening
<1>3. Flattening(h, s, Len(s))
  BY <1>2 DEF Flattening
<1>4. Len(s) = 0 => FlattenSeq(s) = s
  BY DEF FlattenSeq
<1> HIDE DEF h
<1>5. QED  BY <1>1, <1>3, <1>4

\* Flattening one more sequence puts it at the end.
LEMMA FlattenNext ==
  ASSUME NEW T, NEW s \in Seq(Seq(T)), NEW x \in Seq(T)
  PROVE  FlattenSeq(Append(s, x)) = FlattenSeq(s) \o x /\ FlattenSeq(s) \in Seq(T)
<1>1. PICK n \in Nat : n = Len(s)
  OBVIOUS
<1>2. PICK t : t = Append(s, x)
  OBVIOUS
<1>3. Len(t) = n + 1 /\ t[n + 1] = x /\ \A i \in 1 .. n : t[i] = s[i] /\ s[i] \in Seq(T)
  BY <1>1, <1>2
<1>4. PICK k : Flattening(k, t, n + 1) /\ FlattenSeq(t) = k[n + 1]
  BY <1>3, FlattenIs
<1>5. k[n + 1] = IF n + 1 = 1 THEN x ELSE k[n + 1 - 1] \o x
  <2>1. n + 1 \in Nat /\ n + 1 \in 1 .. n + 1
    OBVIOUS
  <2>2. k[n + 1] = IF n + 1 = 1 THEN t[n + 1] ELSE k[n + 1 - 1] \o t[n + 1]
    <3>1. PICK m \in Nat : m = n + 1
      BY <2>1
    <3>2. Flattening(k, t, m) /\ m \in 1 .. m
      BY <3>1, <2>1, <1>4
    <3>3. k[m] = IF m = 1 THEN t[m] ELSE k[m - 1] \o t[m]
      BY <3>2, Flattened
    <3>4. QED  BY <3>1, <3>3
  <2>3. QED  BY <2>2, <1>3
<1>6. CASE n = 0
  <2>1. s = <<>>
    <3>1. PICK U : s \in Seq(U)
      OBVIOUS
    <3>2. \A u \in Seq(U) : Len(u) = 0 => u = <<>>
      OBVIOUS
    <3>3. QED  BY <3>1, <3>2, <1>1, <1>6
  <2>2. FlattenSeq(s) = s
    BY <1>1, <1>6, FlattenIs
  <2>3. FlattenSeq(t) = x
    BY <1>4, <1>5, <1>6
  <2>4. <<>> \o x = x /\ <<>> \in Seq(T)
    OBVIOUS
  <2>5. FlattenSeq(s) = <<>>
    BY <2>1, <2>2
  <2>6. QED  BY <2>3, <2>4, <2>5, <1>2
<1>7. CASE n # 0
  <2>1. PICK h : Flattening(h, s, n) /\ FlattenSeq(s) = h[n]
    BY <1>1, <1>7, FlattenIs
  <2>2. \A i \in 1 .. n : h[i] = k[i] /\ h[i] \in Seq(T)
    <3>1. \A i \in 1 .. n : t[i] = s[i]
      BY <1>3
    <3>2. \A i \in 1 .. n : s[i] \in Seq(T)
      BY <1>3
    <3>3. Flattening(h, s, n) /\ Flattening(k, t, n + 1)
      BY <2>1, <1>4
    <3>4. QED  BY <3>1, <3>2, <3>3, FlatteningSame, Zenon
  <2>3. n \in 1 .. n /\ n + 1 - 1 = n /\ n + 1 # 1
    BY <1>7
  <2>4. QED  BY <2>1, <2>2, <2>3, <1>2, <1>4, <1>5
<1>8. QED  BY <1>6, <1>7

Octets == 0 .. 255

\* The characters of h are those of f and then those of x.
Follows(h, f, x) ==
  /\ h \in Seq(Nat) /\ Len(h) = Len(f) + Len(x)
  /\ \A i \in 1 .. Len(f) + Len(x) : h[i] = IF i <= Len(f) THEN f[i] ELSE x[i - Len(f)]

LEMMA FollowsIs ==
  ASSUME NEW f \in Seq(Nat), NEW x \in Seq(Nat), NEW h, h = f \o x
  PROVE  Follows(h, f, x)
  BY ConcatProperties DEF Follows

\* Flattening groups of four, and of three, puts each character in its place.
Fours(f, s, n) ==
  /\ f \in Seq(Nat) /\ Len(f) = 4 * n
  /\ \A g \in 1 .. n : \A k \in 1 .. 4 : f[4 * (g - 1) + k] = s[g][k]

LEMMA FoursNext ==
  ASSUME NEW n \in Nat, NEW s, NEW f, Fours(f, s, n), NEW x, Len(x) = 4, NEW h, Follows(h, f, x),
         NEW t, \A g \in 1 .. n : t[g] = s[g], t[n + 1] = x
  PROVE  Fours(h, t, n + 1)
<1>1. PICK l \in Nat : l = 4 * n /\ Len(f) = l
  BY DEF Fours
<1>2. h \in Seq(Nat) /\ Len(h) = l + 4 /\ \A i \in 1 .. l + 4 : h[i] = IF i <= l THEN f[i] ELSE x[i - l]
  BY <1>1 DEF Follows
<1>3. ASSUME NEW g \in 1 .. n + 1, NEW k \in 1 .. 4
      PROVE  h[4 * (g - 1) + k] = t[g][k]
  <2>1. CASE g \in 1 .. n
    <3>1. 4 * (g - 1) + k \in 1 .. l
      BY <1>1, <2>1
    <3>2. f[4 * (g - 1) + k] = s[g][k]
      BY <2>1 DEF Fours
    <3>3. h[4 * (g - 1) + k] = f[4 * (g - 1) + k]
      <4>1. PICK i : i = 4 * (g - 1) + k /\ i \in 1 .. l
        BY <3>1
      <4>2. i \in 1 .. l + 4 /\ i <= l
        BY <1>1, <4>1
      <4>3. QED  BY <1>2, <4>1, <4>2
    <3>4. QED  BY <3>2, <3>3, <2>1
  <2>2. CASE g = n + 1
    <3>1. 4 * (g - 1) + k = l + k
      BY <1>1, <2>2
    <3>2. l + k \in 1 .. l + 4 /\ ~ (l + k <= l) /\ (l + k) - l = k
      BY <1>1
    <3>3. h[l + k] = x[k]
      BY <1>2, <3>2
    <3>4. QED  BY <3>1, <3>3, <2>2
  <2>3. g \in 1 .. n \/ g = n + 1
    OBVIOUS
  <2>4. QED  BY <2>1, <2>2, <2>3, Zenon
<1>4. Len(h) = 4 * (n + 1)
  BY <1>1, <1>2
<1>5. QED  BY <1>2, <1>3, <1>4 DEF Fours

Threes(f, s, n) ==
  /\ f \in Seq(Nat) /\ Len(f) = 3 * n
  /\ \A g \in 1 .. n : \A k \in 1 .. 3 : f[3 * (g - 1) + k] = s[g][k]

LEMMA ThreesNext ==
  ASSUME NEW n \in Nat, NEW s, NEW f, Threes(f, s, n), NEW x, Len(x) = 3, NEW h, Follows(h, f, x),
         NEW t, \A g \in 1 .. n : t[g] = s[g], t[n + 1] = x
  PROVE  Threes(h, t, n + 1)
<1>1. PICK l \in Nat : l = 3 * n /\ Len(f) = l
  BY DEF Threes
<1>2. h \in Seq(Nat) /\ Len(h) = l + 3 /\ \A i \in 1 .. l + 3 : h[i] = IF i <= l THEN f[i] ELSE x[i - l]
  BY <1>1 DEF Follows
<1>3. ASSUME NEW g \in 1 .. n + 1, NEW k \in 1 .. 3
      PROVE  h[3 * (g - 1) + k] = t[g][k]
  <2>1. CASE g \in 1 .. n
    <3>1. 3 * (g - 1) + k \in 1 .. l
      BY <1>1, <2>1
    <3>2. f[3 * (g - 1) + k] = s[g][k]
      BY <2>1 DEF Threes
    <3>3. h[3 * (g - 1) + k] = f[3 * (g - 1) + k]
      <4>1. PICK i : i = 3 * (g - 1) + k /\ i \in 1 .. l
        BY <3>1
      <4>2. i \in 1 .. l + 3 /\ i <= l
        BY <1>1, <4>1
      <4>3. QED  BY <1>2, <4>1, <4>2
    <3>4. QED  BY <3>2, <3>3, <2>1
  <2>2. CASE g = n + 1
    <3>1. 3 * (g - 1) + k = l + k
      BY <1>1, <2>2
    <3>2. l + k \in 1 .. l + 3 /\ ~ (l + k <= l) /\ (l + k) - l = k
      BY <1>1
    <3>3. h[l + k] = x[k]
      BY <1>2, <3>2
    <3>4. QED  BY <3>1, <3>3, <2>2
  <2>3. g \in 1 .. n \/ g = n + 1
    OBVIOUS
  <2>4. QED  BY <2>1, <2>2, <2>3, Zenon
<1>4. Len(h) = 3 * (n + 1)
  BY <1>1, <1>2
<1>5. QED  BY <1>2, <1>3, <1>4 DEF Threes

LEMMA GroupsIs ==
  ASSUME NEW n \in Nat, NEW s \in Seq(Seq(Nat)), Len(s) = n
  PROVE  /\ (\A g \in 1 .. n : Len(s[g]) = 4) => Fours(FlattenSeq(s), s, n)
         /\ (\A g \in 1 .. n : Len(s[g]) = 3) => Threes(FlattenSeq(s), s, n)
<1> DEFINE GroupsAt(m) == \A t \in Seq(Seq(Nat)) : Len(t) = m =>
                        /\ (\A g \in 1 .. m : Len(t[g]) = 4) => Fours(FlattenSeq(t), t, m)
                        /\ (\A g \in 1 .. m : Len(t[g]) = 3) => Threes(FlattenSeq(t), t, m)
           D == {m \in Nat : ~ GroupsAt(m)}
<1>1. D = {}
  <2> SUFFICES ASSUME D # {}  PROVE FALSE
    OBVIOUS
  <2>1. PICK m \in D : \A y \in D : m <= y
    <3>1. D \subseteq Nat
      OBVIOUS
    <3> HIDE DEF D
    <3>2. QED  BY <3>1, LeastMember
  <2>2. m \in Nat /\ ~ GroupsAt(m)
    BY <2>1
  <2>3. PICK t \in Seq(Seq(Nat)) :
          /\ Len(t) = m
          /\ \/ (\A g \in 1 .. m : Len(t[g]) = 4) /\ ~ Fours(FlattenSeq(t), t, m)
             \/ (\A g \in 1 .. m : Len(t[g]) = 3) /\ ~ Threes(FlattenSeq(t), t, m)
    BY <2>2
  <2>4. m # 0
    <3> SUFFICES ASSUME m = 0  PROVE FALSE
      OBVIOUS
    <3>1. FlattenSeq(t) = t
      BY <2>3, FlattenIs
    <3>2. t = <<>>
      <4>1. PICK U : t \in Seq(U)
        OBVIOUS
      <4>2. \A u \in Seq(U) : Len(u) = 0 => u = <<>>
        OBVIOUS
      <4>3. QED  BY <4>1, <4>2, <2>3
    <3>3. FlattenSeq(t) \in Seq(Nat) /\ Len(FlattenSeq(t)) = 0
      BY <3>1, <3>2
    <3>4. QED  BY <3>3, <2>3 DEF Fours, Threes
  <2>5. PICK p \in Nat : m = p + 1
    <3>1. m - 1 \in Nat /\ m = (m - 1) + 1
      BY <2>2, <2>4
    <3>2. QED  BY <3>1
  <2>6. PICK u, x : u \in Seq(Seq(Nat)) /\ Len(u) = p /\ x \in Seq(Nat) /\ t = Append(u, x)
                    /\ x = t[m] /\ \A g \in 1 .. p : u[g] = t[g]
    <3>1. PICK U : U = Seq(Nat)
      OBVIOUS
    <3>2. t \in Seq(U)
      BY <3>1
    <3> DEFINE u == SubSeq(t, 1, p)
    <3>3. u \in Seq(U) /\ Len(u) = p /\ t[m] \in U /\ \A g \in 1 .. p : u[g] = t[g]
      BY <3>2, <2>3, <2>5
    <3>4. t = Append(u, t[m])
      BY <3>2, <3>3, <2>3, <2>5
    <3>5. QED  BY <3>1, <3>3, <3>4
  <2>7. p \notin D
    BY <2>1, <2>5
  <2>8. GroupsAt(p)
    BY <2>7
  <2>9. m \in 1 .. m /\ \A g \in 1 .. p : g \in 1 .. m
    BY <2>5
  <2>10. ASSUME \A g \in 1 .. m : Len(t[g]) = 4  PROVE Fours(FlattenSeq(t), t, m)
    <3>1. \A g \in 1 .. p : Len(u[g]) = 4
      BY <2>6, <2>9, <2>10
    <3>2. Fours(FlattenSeq(u), u, p)
      BY <3>1, <2>6, <2>8
    <3>3. Len(x) = 4
      BY <2>6, <2>9, <2>10
    <3>4. FlattenSeq(t) = FlattenSeq(u) \o x
      BY <2>6, FlattenNext
    <3>5. (\A g \in 1 .. p : t[g] = u[g]) /\ t[p + 1] = x
      BY <2>5, <2>6
    <3>6. Follows(FlattenSeq(t), FlattenSeq(u), x)
      <4>1. FlattenSeq(u) \in Seq(Nat)
        BY <3>2 DEF Fours
      <4>2. QED  BY <4>1, <3>4, <2>6, FollowsIs
    <3>7. Fours(FlattenSeq(t), t, p + 1)
      BY <3>2, <3>3, <3>5, <3>6, FoursNext
    <3>8. QED  BY <3>7, <2>5
  <2>11. ASSUME \A g \in 1 .. m : Len(t[g]) = 3  PROVE Threes(FlattenSeq(t), t, m)
    <3>1. \A g \in 1 .. p : Len(u[g]) = 3
      BY <2>6, <2>9, <2>11
    <3>2. Threes(FlattenSeq(u), u, p)
      BY <3>1, <2>6, <2>8
    <3>3. Len(x) = 3
      BY <2>6, <2>9, <2>11
    <3>4. FlattenSeq(t) = FlattenSeq(u) \o x
      BY <2>6, FlattenNext
    <3>5. (\A g \in 1 .. p : t[g] = u[g]) /\ t[p + 1] = x
      BY <2>5, <2>6
    <3>6. Follows(FlattenSeq(t), FlattenSeq(u), x)
      <4>1. FlattenSeq(u) \in Seq(Nat)
        BY <3>2 DEF Threes
      <4>2. QED  BY <4>1, <3>4, <2>6, FollowsIs
    <3>7. Threes(FlattenSeq(t), t, p + 1)
      BY <3>2, <3>3, <3>5, <3>6, ThreesNext
    <3>8. QED  BY <3>7, <2>5
  <2>12. QED  BY <2>3, <2>10, <2>11
<1>2. GroupsAt(n)
  <2> HIDE DEF GroupsAt
  <2>1. QED  BY <1>1
<1>3. QED  BY <1>2

-----------------------------------------------------------------------------
(* Six bits of a text.                                                       *)

\* Behind the text there are zeros.
OctetOf(t, p) == IF p <= Len(t) THEN t[p] ELSE 0
Bit(x, k) == (x \div Weight[k + 1]) % 2

LEMMA OctetIs ==
  ASSUME NEW t \in Seq(Octets), NEW p \in Nat \ {0}
  PROVE  OctetOf(t, p) \in Octets
<1>1. CASE p <= Len(t)
  <2>1. p \in 1 .. Len(t)
    BY <1>1
  <2>2. QED  BY <1>1, <2>1 DEF OctetOf
<1>2. CASE ~ (p <= Len(t))
  BY <1>2 DEF OctetOf, Octets
<1>3. QED  BY <1>1, <1>2

LEMMA BitIs ==
  ASSUME NEW t \in Seq(Octets), NEW p \in Nat \ {0}, NEW k \in 0 .. 7
  PROVE  BitOf(t, 8 * (p - 1) + k) = Bit(OctetOf(t, p), k)
<1> DEFINE n == 8 * (p - 1) + k
<1>1. n \in Nat /\ n \div 8 = p - 1 /\ n % 8 = k /\ (n < 8 * Len(t) <=> p <= Len(t))
  OBVIOUS
<1>2. (n \div 8) + 1 = p /\ (n % 8) + 1 = k + 1
  BY <1>1
<1> HIDE DEF n
<1>3. CASE p <= Len(t)
  BY <1>1, <1>2, <1>3 DEF BitOf, Bit, OctetOf
<1>4. CASE ~ (p <= Len(t))
  <2>1. BitOf(t, n) = 0 /\ OctetOf(t, p) = 0
    BY <1>1, <1>4 DEF BitOf, OctetOf
  <2>2. Bit(0, k) = 0
    <3>1. PICK w : w = Weight[k + 1] /\ w \in {128, 64, 32, 16, 8, 4, 2, 1}
      BY DEF Weight
    <3>2. 0 \div w = 0
      BY <3>1
    <3>3. QED  BY <3>1, <3>2 DEF Bit
  <2>3. QED  BY <2>1, <2>2 DEF n
<1>5. QED  BY <1>3, <1>4 DEF n

\* An octet from its bits.
LEMMA BitsOf ==
  ASSUME NEW x \in Octets
  PROVE  /\ x \div 4 = 32 * Bit(x, 0) + 16 * Bit(x, 1) + 8 * Bit(x, 2) + 4 * Bit(x, 3) + 2 * Bit(x, 4) + Bit(x, 5)
         /\ x % 4 = 2 * Bit(x, 6) + Bit(x, 7)
         /\ x \div 16 = 8 * Bit(x, 0) + 4 * Bit(x, 1) + 2 * Bit(x, 2) + Bit(x, 3)
         /\ x % 16 = 8 * Bit(x, 4) + 4 * Bit(x, 5) + 2 * Bit(x, 6) + Bit(x, 7)
         /\ x \div 64 = 2 * Bit(x, 0) + Bit(x, 1)
         /\ x % 64 = 32 * Bit(x, 2) + 16 * Bit(x, 3) + 8 * Bit(x, 4) + 4 * Bit(x, 5) + 2 * Bit(x, 6) + Bit(x, 7)
         /\ \A k \in 0 .. 7 : Bit(x, k) \in 0 .. 1
<1>1. /\ Bit(x, 0) = (x \div 128) % 2 /\ Bit(x, 1) = (x \div 64) % 2 /\ Bit(x, 2) = (x \div 32) % 2
      /\ Bit(x, 3) = (x \div 16) % 2 /\ Bit(x, 4) = (x \div 8) % 2 /\ Bit(x, 5) = (x \div 4) % 2
      /\ Bit(x, 6) = (x \div 2) % 2 /\ Bit(x, 7) = (x \div 1) % 2
  BY DEF Bit, Weight
<1>2. x \in 0 .. 255 /\ x \div 1 = x
  BY DEF Octets
<1>3. x \div 128 = (x \div 64) \div 2 /\ x \div 64 = (x \div 32) \div 2 /\ x \div 32 = (x \div 16) \div 2
      /\ x \div 16 = (x \div 8) \div 2 /\ x \div 8 = (x \div 4) \div 2 /\ x \div 4 = (x \div 2) \div 2
      /\ x \div 128 \in 0 .. 1
  BY <1>2
<1>4. PICK y1, y2, y3, y4, y5, y6, y7 \in Nat :
        /\ y1 = x \div 2 /\ y2 = x \div 4 /\ y3 = x \div 8 /\ y4 = x \div 16 /\ y5 = x \div 32
        /\ y6 = x \div 64 /\ y7 = x \div 128
  BY <1>2
<1>5. PICK b0, b1, b2, b3, b4, b5, b6, b7 \in 0 .. 1 :
        /\ b7 = x % 2 /\ b6 = y1 % 2 /\ b5 = y2 % 2 /\ b4 = y3 % 2 /\ b3 = y4 % 2 /\ b2 = y5 % 2
        /\ b1 = y6 % 2 /\ b0 = y7 % 2
  BY <1>2
<1>6. /\ x = 2 * y1 + b7 /\ y1 = 2 * y2 + b6 /\ y2 = 2 * y3 + b5 /\ y3 = 2 * y4 + b4 /\ y4 = 2 * y5 + b3
      /\ y5 = 2 * y6 + b2 /\ y6 = 2 * y7 + b1 /\ y7 = b0
  BY <1>2, <1>3, <1>4, <1>5
<1>7. /\ x \div 4 = 32 * b0 + 16 * b1 + 8 * b2 + 4 * b3 + 2 * b4 + b5 /\ x % 4 = 2 * b6 + b7
      /\ x \div 16 = 8 * b0 + 4 * b1 + 2 * b2 + b3 /\ x % 16 = 8 * b4 + 4 * b5 + 2 * b6 + b7
      /\ x \div 64 = 2 * b0 + b1 /\ x % 64 = 32 * b2 + 16 * b3 + 8 * b4 + 4 * b5 + 2 * b6 + b7
  BY <1>2, <1>6
<1>8. /\ Bit(x, 0) = b0 /\ Bit(x, 1) = b1 /\ Bit(x, 2) = b2 /\ Bit(x, 3) = b3 /\ Bit(x, 4) = b4
      /\ Bit(x, 5) = b5 /\ Bit(x, 6) = b6 /\ Bit(x, 7) = b7
  BY <1>1, <1>2, <1>4, <1>5
<1>9. \A k \in 0 .. 7 : Bit(x, k) \in 0 .. 1
  <2>1. \A k \in 0 .. 7 : k = 0 \/ k = 1 \/ k = 2 \/ k = 3 \/ k = 4 \/ k = 5 \/ k = 6 \/ k = 7
    OBVIOUS
  <2>2. QED  BY <2>1, <1>5, <1>8
<1>10. QED  BY <1>7, <1>8, <1>9

\* Four digits are three octets.
LEMMA SixBitsAre ==
  ASSUME NEW t \in Seq(Octets), NEW g \in Nat \ {0}
  PROVE  LET a == OctetOf(t, 3 * g - 2)
             b == OctetOf(t, 3 * g - 1)
             c == OctetOf(t, 3 * g)
         IN /\ a \in Octets /\ b \in Octets /\ c \in Octets
            /\ SixBits(t, 4 * g - 3) = Digit1(a) /\ SixBits(t, 4 * g - 2) = Digit2(a, b)
            /\ SixBits(t, 4 * g - 1) = Digit3(b, c) /\ SixBits(t, 4 * g) = Digit4(c)
<1> DEFINE a == OctetOf(t, 3 * g - 2)
           b == OctetOf(t, 3 * g - 1)
           c == OctetOf(t, 3 * g)
<1>2. 3 * g - 2 \in Nat \ {0} /\ 3 * g - 1 \in Nat \ {0} /\ 3 * g \in Nat \ {0}
  OBVIOUS
<1>1. a \in Octets /\ b \in Octets /\ c \in Octets
  BY <1>2, OctetIs
<1>3. ASSUME NEW k \in 0 .. 7
      PROVE  /\ BitOf(t, 8 * (3 * g - 2 - 1) + k) = Bit(a, k)
             /\ BitOf(t, 8 * (3 * g - 1 - 1) + k) = Bit(b, k)
             /\ BitOf(t, 8 * (3 * g - 1) + k) = Bit(c, k)
  BY <1>2, BitIs
<1> HIDE DEF a, b, c
<1>4. SixBits(t, 4 * g - 3) = Digit1(a)
  <2>1. /\ BitOf(t, 6 * (4 * g - 3 - 1) + 0) = Bit(a, 0)
        /\ BitOf(t, 6 * (4 * g - 3 - 1) + 1) = Bit(a, 1)
        /\ BitOf(t, 6 * (4 * g - 3 - 1) + 2) = Bit(a, 2)
        /\ BitOf(t, 6 * (4 * g - 3 - 1) + 3) = Bit(a, 3)
        /\ BitOf(t, 6 * (4 * g - 3 - 1) + 4) = Bit(a, 4)
        /\ BitOf(t, 6 * (4 * g - 3 - 1) + 5) = Bit(a, 5)
    <3>1. 6 * (4 * g - 3 - 1) + 0 = 8 * (3 * g - 2 - 1) + 0 /\ 0 \in 0 .. 7
      OBVIOUS
    <3>2. BitOf(t, 6 * (4 * g - 3 - 1) + 0) = Bit(a, 0)
      BY <3>1, <1>3
    <3>3. 6 * (4 * g - 3 - 1) + 1 = 8 * (3 * g - 2 - 1) + 1 /\ 1 \in 0 .. 7
      OBVIOUS
    <3>4. BitOf(t, 6 * (4 * g - 3 - 1) + 1) = Bit(a, 1)
      BY <3>3, <1>3
    <3>5. 6 * (4 * g - 3 - 1) + 2 = 8 * (3 * g - 2 - 1) + 2 /\ 2 \in 0 .. 7
      OBVIOUS
    <3>6. BitOf(t, 6 * (4 * g - 3 - 1) + 2) = Bit(a, 2)
      BY <3>5, <1>3
    <3>7. 6 * (4 * g - 3 - 1) + 3 = 8 * (3 * g - 2 - 1) + 3 /\ 3 \in 0 .. 7
      OBVIOUS
    <3>8. BitOf(t, 6 * (4 * g - 3 - 1) + 3) = Bit(a, 3)
      BY <3>7, <1>3
    <3>9. 6 * (4 * g - 3 - 1) + 4 = 8 * (3 * g - 2 - 1) + 4 /\ 4 \in 0 .. 7
      OBVIOUS
    <3>10. BitOf(t, 6 * (4 * g - 3 - 1) + 4) = Bit(a, 4)
      BY <3>9, <1>3
    <3>11. 6 * (4 * g - 3 - 1) + 5 = 8 * (3 * g - 2 - 1) + 5 /\ 5 \in 0 .. 7
      OBVIOUS
    <3>12. BitOf(t, 6 * (4 * g - 3 - 1) + 5) = Bit(a, 5)
      BY <3>11, <1>3
    <3>13. QED  BY <3>2, <3>4, <3>6, <3>8, <3>10, <3>12
  <2>2. SixBits(t, 4 * g - 3) = 32 * Bit(a, 0) + 16 * Bit(a, 1) + 8 * Bit(a, 2) + 4 * Bit(a, 3) + 2 * Bit(a, 4) + Bit(a, 5)
    BY <2>1 DEF SixBits
  <2>3. Bit(a, 0) \in 0 .. 1 /\ Bit(a, 1) \in 0 .. 1 /\ Bit(a, 2) \in 0 .. 1
        /\ Bit(a, 3) \in 0 .. 1 /\ Bit(a, 4) \in 0 .. 1 /\ Bit(a, 5) \in 0 .. 1
    BY <1>1, BitsOf
  <2>4. a \div 4 = 32 * Bit(a, 0) + 16 * Bit(a, 1) + 8 * Bit(a, 2) + 4 * Bit(a, 3) + 2 * Bit(a, 4) + Bit(a, 5)
    BY <1>1, BitsOf
  <2>5. QED  BY <2>2, <2>3, <2>4 DEF Digit1
<1>5. SixBits(t, 4 * g - 2) = Digit2(a, b)
  <2>1. /\ BitOf(t, 6 * (4 * g - 2 - 1) + 0) = Bit(a, 6)
        /\ BitOf(t, 6 * (4 * g - 2 - 1) + 1) = Bit(a, 7)
        /\ BitOf(t, 6 * (4 * g - 2 - 1) + 2) = Bit(b, 0)
        /\ BitOf(t, 6 * (4 * g - 2 - 1) + 3) = Bit(b, 1)
        /\ BitOf(t, 6 * (4 * g - 2 - 1) + 4) = Bit(b, 2)
        /\ BitOf(t, 6 * (4 * g - 2 - 1) + 5) = Bit(b, 3)
    <3>1. 6 * (4 * g - 2 - 1) + 0 = 8 * (3 * g - 2 - 1) + 6 /\ 6 \in 0 .. 7
      OBVIOUS
    <3>2. BitOf(t, 6 * (4 * g - 2 - 1) + 0) = Bit(a, 6)
      BY <3>1, <1>3
    <3>3. 6 * (4 * g - 2 - 1) + 1 = 8 * (3 * g - 2 - 1) + 7 /\ 7 \in 0 .. 7
      OBVIOUS
    <3>4. BitOf(t, 6 * (4 * g - 2 - 1) + 1) = Bit(a, 7)
      BY <3>3, <1>3
    <3>5. 6 * (4 * g - 2 - 1) + 2 = 8 * (3 * g - 1 - 1) + 0 /\ 0 \in 0 .. 7
      OBVIOUS
    <3>6. BitOf(t, 6 * (4 * g - 2 - 1) + 2) = Bit(b, 0)
      BY <3>5, <1>3
    <3>7. 6 * (4 * g - 2 - 1) + 3 = 8 * (3 * g - 1 - 1) + 1 /\ 1 \in 0 .. 7
      OBVIOUS
    <3>8. BitOf(t, 6 * (4 * g - 2 - 1) + 3) = Bit(b, 1)
      BY <3>7, <1>3
    <3>9. 6 * (4 * g - 2 - 1) + 4 = 8 * (3 * g - 1 - 1) + 2 /\ 2 \in 0 .. 7
      OBVIOUS
    <3>10. BitOf(t, 6 * (4 * g - 2 - 1) + 4) = Bit(b, 2)
      BY <3>9, <1>3
    <3>11. 6 * (4 * g - 2 - 1) + 5 = 8 * (3 * g - 1 - 1) + 3 /\ 3 \in 0 .. 7
      OBVIOUS
    <3>12. BitOf(t, 6 * (4 * g - 2 - 1) + 5) = Bit(b, 3)
      BY <3>11, <1>3
    <3>13. QED  BY <3>2, <3>4, <3>6, <3>8, <3>10, <3>12
  <2>2. SixBits(t, 4 * g - 2) = 32 * Bit(a, 6) + 16 * Bit(a, 7) + 8 * Bit(b, 0) + 4 * Bit(b, 1) + 2 * Bit(b, 2) + Bit(b, 3)
    BY <2>1 DEF SixBits
  <2>3. Bit(a, 6) \in 0 .. 1 /\ Bit(a, 7) \in 0 .. 1 /\ Bit(b, 0) \in 0 .. 1
        /\ Bit(b, 1) \in 0 .. 1 /\ Bit(b, 2) \in 0 .. 1 /\ Bit(b, 3) \in 0 .. 1
    BY <1>1, BitsOf
  <2>4. a % 4 = 2 * Bit(a, 6) + Bit(a, 7) /\ b \div 16 = 8 * Bit(b, 0) + 4 * Bit(b, 1) + 2 * Bit(b, 2) + Bit(b, 3)
    BY <1>1, BitsOf
  <2>5. PICK v0, v1, v2, v3, v4, v5 \in 0 .. 1 :
          v0 = Bit(a, 6) /\ v1 = Bit(a, 7) /\ v2 = Bit(b, 0) /\ v3 = Bit(b, 1) /\ v4 = Bit(b, 2) /\ v5 = Bit(b, 3)
    BY <2>3
  <2>6. a % 4 = 2 * v0 + v1 /\ b \div 16 = 8 * v2 + 4 * v3 + 2 * v4 + v5
    BY <2>4, <2>5
  <2>7. SixBits(t, 4 * g - 2) = 32 * v0 + 16 * v1 + 8 * v2 + 4 * v3 + 2 * v4 + v5
    BY <2>2, <2>5
  <2>8. (2 * v0 + v1) * 16 = 32 * v0 + 16 * v1
    OBVIOUS
  <2>9. QED  BY <2>6, <2>7, <2>8 DEF Digit2
<1>6. SixBits(t, 4 * g - 1) = Digit3(b, c)
  <2>1. /\ BitOf(t, 6 * (4 * g - 1 - 1) + 0) = Bit(b, 4)
        /\ BitOf(t, 6 * (4 * g - 1 - 1) + 1) = Bit(b, 5)
        /\ BitOf(t, 6 * (4 * g - 1 - 1) + 2) = Bit(b, 6)
        /\ BitOf(t, 6 * (4 * g - 1 - 1) + 3) = Bit(b, 7)
        /\ BitOf(t, 6 * (4 * g - 1 - 1) + 4) = Bit(c, 0)
        /\ BitOf(t, 6 * (4 * g - 1 - 1) + 5) = Bit(c, 1)
    <3>1. 6 * (4 * g - 1 - 1) + 0 = 8 * (3 * g - 1 - 1) + 4 /\ 4 \in 0 .. 7
      OBVIOUS
    <3>2. BitOf(t, 6 * (4 * g - 1 - 1) + 0) = Bit(b, 4)
      BY <3>1, <1>3
    <3>3. 6 * (4 * g - 1 - 1) + 1 = 8 * (3 * g - 1 - 1) + 5 /\ 5 \in 0 .. 7
      OBVIOUS
    <3>4. BitOf(t, 6 * (4 * g - 1 - 1) + 1) = Bit(b, 5)
      BY <3>3, <1>3
    <3>5. 6 * (4 * g - 1 - 1) + 2 = 8 * (3 * g - 1 - 1) + 6 /\ 6 \in 0 .. 7
      OBVIOUS
    <3>6. BitOf(t, 6 * (4 * g - 1 - 1) + 2) = Bit(b, 6)
      BY <3>5, <1>3
    <3>7. 6 * (4 * g - 1 - 1) + 3 = 8 * (3 * g - 1 - 1) + 7 /\ 7 \in 0 .. 7
      OBVIOUS
    <3>8. BitOf(t, 6 * (4 * g - 1 - 1) + 3) = Bit(b, 7)
      BY <3>7, <1>3
    <3>9. 6 * (4 * g - 1 - 1) + 4 = 8 * (3 * g - 1) + 0 /\ 0 \in 0 .. 7
      OBVIOUS
    <3>10. BitOf(t, 6 * (4 * g - 1 - 1) + 4) = Bit(c, 0)
      BY <3>9, <1>3
    <3>11. 6 * (4 * g - 1 - 1) + 5 = 8 * (3 * g - 1) + 1 /\ 1 \in 0 .. 7
      OBVIOUS
    <3>12. BitOf(t, 6 * (4 * g - 1 - 1) + 5) = Bit(c, 1)
      BY <3>11, <1>3
    <3>13. QED  BY <3>2, <3>4, <3>6, <3>8, <3>10, <3>12
  <2>2. SixBits(t, 4 * g - 1) = 32 * Bit(b, 4) + 16 * Bit(b, 5) + 8 * Bit(b, 6) + 4 * Bit(b, 7) + 2 * Bit(c, 0) + Bit(c, 1)
    BY <2>1 DEF SixBits
  <2>3. Bit(b, 4) \in 0 .. 1 /\ Bit(b, 5) \in 0 .. 1 /\ Bit(b, 6) \in 0 .. 1
        /\ Bit(b, 7) \in 0 .. 1 /\ Bit(c, 0) \in 0 .. 1 /\ Bit(c, 1) \in 0 .. 1
    BY <1>1, BitsOf
  <2>4. b % 16 = 8 * Bit(b, 4) + 4 * Bit(b, 5) + 2 * Bit(b, 6) + Bit(b, 7) /\ c \div 64 = 2 * Bit(c, 0) + Bit(c, 1)
    BY <1>1, BitsOf
  <2>5. PICK v0, v1, v2, v3, v4, v5 \in 0 .. 1 :
          v0 = Bit(b, 4) /\ v1 = Bit(b, 5) /\ v2 = Bit(b, 6) /\ v3 = Bit(b, 7) /\ v4 = Bit(c, 0) /\ v5 = Bit(c, 1)
    BY <2>3
  <2>6. b % 16 = 8 * v0 + 4 * v1 + 2 * v2 + v3 /\ c \div 64 = 2 * v4 + v5
    BY <2>4, <2>5
  <2>7. SixBits(t, 4 * g - 1) = 32 * v0 + 16 * v1 + 8 * v2 + 4 * v3 + 2 * v4 + v5
    BY <2>2, <2>5
  <2>8. (8 * v0 + 4 * v1 + 2 * v2 + v3) * 4 = 32 * v0 + 16 * v1 + 8 * v2 + 4 * v3
    OBVIOUS
  <2>9. QED  BY <2>6, <2>7, <2>8 DEF Digit3
<1>7. SixBits(t, 4 * g) = Digit4(c)
  <2>1. /\ BitOf(t, 6 * (4 * g - 1) + 0) = Bit(c, 2)
        /\ BitOf(t, 6 * (4 * g - 1) + 1) = Bit(c, 3)
        /\ BitOf(t, 6 * (4 * g - 1) + 2) = Bit(c, 4)
        /\ BitOf(t, 6 * (4 * g - 1) + 3) = Bit(c, 5)
        /\ BitOf(t, 6 * (4 * g - 1) + 4) = Bit(c, 6)
        /\ BitOf(t, 6 * (4 * g - 1) + 5) = Bit(c, 7)
    <3>1. 6 * (4 * g - 1) + 0 = 8 * (3 * g - 1) + 2 /\ 2 \in 0 .. 7
      OBVIOUS
    <3>2. BitOf(t, 6 * (4 * g - 1) + 0) = Bit(c, 2)
      BY <3>1, <1>3
    <3>3. 6 * (4 * g - 1) + 1 = 8 * (3 * g - 1) + 3 /\ 3 \in 0 .. 7
      OBVIOUS
    <3>4. BitOf(t, 6 * (4 * g - 1) + 1) = Bit(c, 3)
      BY <3>3, <1>3
    <3>5. 6 * (4 * g - 1) + 2 = 8 * (3 * g - 1) + 4 /\ 4 \in 0 .. 7
      OBVIOUS
    <3>6. BitOf(t, 6 * (4 * g - 1) + 2) = Bit(c, 4)
      BY <3>5, <1>3
    <3>7. 6 * (4 * g - 1) + 3 = 8 * (3 * g - 1) + 5 /\ 5 \in 0 .. 7
      OBVIOUS
    <3>8. BitOf(t, 6 * (4 * g - 1) + 3) = Bit(c, 5)
      BY <3>7, <1>3
    <3>9. 6 * (4 * g - 1) + 4 = 8 * (3 * g - 1) + 6 /\ 6 \in 0 .. 7
      OBVIOUS
    <3>10. BitOf(t, 6 * (4 * g - 1) + 4) = Bit(c, 6)
      BY <3>9, <1>3
    <3>11. 6 * (4 * g - 1) + 5 = 8 * (3 * g - 1) + 7 /\ 7 \in 0 .. 7
      OBVIOUS
    <3>12. BitOf(t, 6 * (4 * g - 1) + 5) = Bit(c, 7)
      BY <3>11, <1>3
    <3>13. QED  BY <3>2, <3>4, <3>6, <3>8, <3>10, <3>12
  <2>2. SixBits(t, 4 * g) = 32 * Bit(c, 2) + 16 * Bit(c, 3) + 8 * Bit(c, 4) + 4 * Bit(c, 5) + 2 * Bit(c, 6) + Bit(c, 7)
    BY <2>1 DEF SixBits
  <2>3. Bit(c, 2) \in 0 .. 1 /\ Bit(c, 3) \in 0 .. 1 /\ Bit(c, 4) \in 0 .. 1
        /\ Bit(c, 5) \in 0 .. 1 /\ Bit(c, 6) \in 0 .. 1 /\ Bit(c, 7) \in 0 .. 1
    BY <1>1, BitsOf
  <2>4. c % 64 = 32 * Bit(c, 2) + 16 * Bit(c, 3) + 8 * Bit(c, 4) + 4 * Bit(c, 5) + 2 * Bit(c, 6) + Bit(c, 7)
    BY <1>1, BitsOf
  <2>5. QED  BY <2>2, <2>3, <2>4 DEF Digit4
<1>8. QED  BY <1>1, <1>4, <1>5, <1>6, <1>7 DEF a, b, c

-----------------------------------------------------------------------------
(* Base64 by its digits.                                                     *)

DigitsOf(t) == [i \in 1 .. (4 * Len(t) + 2) \div 3 |-> SixBits(t, i)]

\* A text of q groups of three and a rest of r.
TextSplit(t, q, r) ==
  /\ q \in Nat /\ r \in 0 .. 2 /\ Len(t) = 3 * q + r
  /\ Len(t) \div 3 = q /\ Len(t) % 3 = r

LEMMA ThirdsOf ==
  ASSUME NEW n \in Nat
  PROVE  /\ n \div 3 \in Nat /\ n % 3 \in 0 .. 2 /\ n = (n % 3) + 3 * (n \div 3)
         /\ \A q \in Nat : /\ (n = 3 * q => (4 * n + 2) \div 3 = 4 * q /\ (n + 2) \div 3 = q)
                         /\ (n = 3 * q + 1 => (4 * n + 2) \div 3 = 4 * q + 2 /\ (n + 2) \div 3 = q + 1)
                         /\ (n = 3 * q + 2 => (4 * n + 2) \div 3 = 4 * q + 3 /\ (n + 2) \div 3 = q + 1)
<1>1. n \div 3 \in Nat /\ n % 3 \in 0 .. 2 /\ n = (n % 3) + 3 * (n \div 3)
  <2>1. n \div 3 \in Nat
    OBVIOUS
  <2>2. n % 3 \in 0 .. 2
    OBVIOUS
  <2>3. n = (n % 3) + 3 * (n \div 3)
    OBVIOUS
  <2>4. QED  BY <2>1, <2>2, <2>3
<1>2. ASSUME NEW q \in Nat, n = 3 * q  PROVE (4 * n + 2) \div 3 = 4 * q /\ (n + 2) \div 3 = q
  BY <1>2
<1>3. ASSUME NEW q \in Nat, n = 3 * q + 1  PROVE (4 * n + 2) \div 3 = 4 * q + 2 /\ (n + 2) \div 3 = q + 1
  BY <1>3
<1>4. ASSUME NEW q \in Nat, n = 3 * q + 2  PROVE (4 * n + 2) \div 3 = 4 * q + 3 /\ (n + 2) \div 3 = q + 1
  BY <1>4
<1>5. QED  BY <1>1, <1>2, <1>3, <1>4

LEMMA SplitIs ==
  ASSUME NEW t \in Seq(Octets)
  PROVE  \E q, r : TextSplit(t, q, r)
<1>1. PICK n \in Nat : n = Len(t)
  OBVIOUS
<1>2. n \div 3 \in Nat /\ n % 3 \in 0 .. 2 /\ n = (n % 3) + 3 * (n \div 3)
  BY ThirdsOf
<1>3. TextSplit(t, n \div 3, n % 3)
  BY <1>1, <1>2 DEF TextSplit
<1>4. QED  BY <1>3

LEMMA LengthsAre ==
  ASSUME NEW t, NEW q, NEW r, TextSplit(t, q, r)
  PROVE  /\ (4 * Len(t) + 2) \div 3 = 4 * q + (IF r = 0 THEN 0 ELSE r + 1)
         /\ 4 * ((Len(t) + 2) \div 3) = 4 * q + (IF r = 0 THEN 0 ELSE 4)
<1>1. q \in Nat /\ Len(t) = 3 * q + r /\ (r = 0 \/ r = 1 \/ r = 2)
  BY DEF TextSplit
<1>2. PICK n \in Nat : n = Len(t) /\ n = 3 * q + r
  BY <1>1
<1>3. CASE r = 0
  <2>1. (4 * n + 2) \div 3 = 4 * q /\ (n + 2) \div 3 = q
    <3>1. n = 3 * q /\ q \in Nat
      BY <1>1, <1>2, <1>3
    <3>2. QED  BY <3>1, ThirdsOf
  <2>2. QED  BY <2>1, <1>2, <1>3
<1>4. CASE r = 1
  <2>1. (4 * n + 2) \div 3 = 4 * q + 2 /\ (n + 2) \div 3 = q + 1
    <3>1. n = 3 * q + 1 /\ q \in Nat
      BY <1>1, <1>2, <1>4
    <3>2. QED  BY <3>1, ThirdsOf
  <2>2. QED  BY <2>1, <1>1, <1>2, <1>4
<1>5. CASE r = 2
  <2>1. (4 * n + 2) \div 3 = 4 * q + 3 /\ (n + 2) \div 3 = q + 1
    <3>1. n = 3 * q + 2 /\ q \in Nat
      BY <1>1, <1>2, <1>5
    <3>2. QED  BY <3>1, ThirdsOf
  <2>2. QED  BY <2>1, <1>1, <1>2, <1>5
<1>6. QED  BY <1>1, <1>3, <1>4, <1>5

LEMMA GroupIs ==
  ASSUME NEW t \in Seq(Octets), NEW q, NEW r, TextSplit(t, q, r), NEW g \in 1 .. q
  PROVE  /\ Group(t, g)[1] = OctetOf(t, 3 * g - 2)
         /\ Group(t, g)[2] = OctetOf(t, 3 * g - 1)
         /\ Group(t, g)[3] = OctetOf(t, 3 * g)
<1>1. q \in Nat /\ Len(t) = 3 * q + r /\ r \in 0 .. 2
  BY DEF TextSplit
<1>2. 3 * g - 2 \in 1 .. Len(t) /\ 3 * g - 1 \in 1 .. Len(t) /\ 3 * g \in 1 .. Len(t)
  BY <1>1
<1>3. PICK m, n : m = 3 * g - 2 /\ n = 3 * g /\ m \in 1 .. Len(t) /\ n \in 1 .. Len(t) /\ n = m + 2
  BY <1>2
<1>4. Group(t, g) = SubSeq(t, m, n)
  BY <1>3 DEF Group
<1>5. SubSeq(t, m, n)[1] = t[m] /\ SubSeq(t, m, n)[2] = t[m + 1] /\ SubSeq(t, m, n)[3] = t[m + 2]
  BY <1>3
<1>6. QED  BY <1>2, <1>3, <1>4, <1>5 DEF OctetOf

LEMMA RestIs2 ==
  ASSUME NEW t \in Seq(Octets), NEW q, NEW r, TextSplit(t, q, r)
  PROVE  /\ Len(Rest(t)) = r
         /\ r >= 1 => Rest(t)[1] = OctetOf(t, 3 * (q + 1) - 2)
         /\ r = 2 => Rest(t)[2] = OctetOf(t, 3 * (q + 1) - 1)
         /\ r <= 1 => OctetOf(t, 3 * (q + 1) - 1) = 0
         /\ OctetOf(t, 3 * (q + 1)) = 0
<1>1. q \in Nat /\ Len(t) = 3 * q + r /\ r \in 0 .. 2 /\ Len(t) % 3 = r
  BY DEF TextSplit
<1>2. PICK m, n : m = Len(t) - r + 1 /\ n = Len(t) /\ m = 3 * q + 1 /\ n \in Nat /\ m \in Nat /\ n = 3 * q + r
  BY <1>1
<1>3. Rest(t) = SubSeq(t, m, n)
  BY <1>1, <1>2 DEF Rest
<1>4. Len(SubSeq(t, m, n)) = r
  BY <1>1, <1>2
<1>5. r >= 1 => SubSeq(t, m, n)[1] = t[m]
  BY <1>1, <1>2
<1>6. r = 2 => SubSeq(t, m, n)[2] = t[m + 1]
  BY <1>1, <1>2
<1>7. 3 * (q + 1) - 2 = m /\ 3 * (q + 1) - 1 = m + 1 /\ 3 * (q + 1) = m + 2 /\ (r >= 1 => m <= n)
      /\ (r = 2 => m + 1 <= n) /\ (r <= 1 => ~ (m + 1 <= n)) /\ ~ (m + 2 <= n)
  BY <1>1, <1>2
<1>8. QED  BY <1>1, <1>2, <1>3, <1>4, <1>5, <1>6, <1>7 DEF OctetOf

LEMMA DigitsAre ==
  ASSUME NEW a \in Octets, NEW b \in Octets
  PROVE  /\ Digit1(a) \in 0 .. 63 /\ Digit2(a, b) \in 0 .. 63 /\ Digit3(a, b) \in 0 .. 63 /\ Digit4(a) \in 0 .. 63
<1>1. a \in 0 .. 255 /\ b \in 0 .. 255
  BY DEF Octets
<1>2. a \div 4 \in 0 .. 63 /\ a % 4 \in 0 .. 3 /\ b \div 16 \in 0 .. 15 /\ a % 16 \in 0 .. 15
      /\ b \div 64 \in 0 .. 3 /\ a % 64 \in 0 .. 63
  BY <1>1
<1>3. QED  BY <1>2 DEF Digit1, Digit2, Digit3, Digit4

\* Each place of a text in characters is one of a group.
LEMMA PlaceIs ==
  ASSUME NEW i \in Nat \ {0}
  PROVE  /\ \E g \in Nat \ {0} : \E k \in 1 .. 4 : i = 4 * (g - 1) + k
         /\ \E g \in Nat \ {0} : \E k \in 1 .. 3 : i = 3 * (g - 1) + k
<1>1. PICK u : u = (i - 1) \div 4 + 1
  OBVIOUS
<1>2. u \in Nat \ {0} /\ i - 4 * (u - 1) \in 1 .. 4 /\ i = 4 * (u - 1) + (i - 4 * (u - 1))
  BY <1>1
<1>3. PICK v : v = (i - 1) \div 3 + 1
  OBVIOUS
<1>4. v \in Nat \ {0} /\ i - 3 * (v - 1) \in 1 .. 3 /\ i = 3 * (v - 1) + (i - 3 * (v - 1))
  BY <1>3
<1>5. QED  BY <1>2, <1>4

LEMMA SixBitsType ==
  ASSUME NEW t \in Seq(Octets), NEW i \in Nat \ {0}
  PROVE  SixBits(t, i) \in 0 .. 63
<1>1. PICK g \in Nat \ {0}, k \in 1 .. 4 : i = 4 * (g - 1) + k
  BY PlaceIs
<1>2. PICK a, b, c \in Octets :
        /\ SixBits(t, 4 * g - 3) = Digit1(a) /\ SixBits(t, 4 * g - 2) = Digit2(a, b)
        /\ SixBits(t, 4 * g - 1) = Digit3(b, c) /\ SixBits(t, 4 * g) = Digit4(c)
  BY SixBitsAre
<1>3. i = 4 * g - 3 \/ i = 4 * g - 2 \/ i = 4 * g - 1 \/ i = 4 * g
  BY <1>1
<1>4. SixBits(t, i) \in {Digit1(a), Digit2(a, b), Digit3(b, c), Digit4(c)}
  BY <1>2, <1>3
<1>5. Digit1(a) \in 0 .. 63 /\ Digit2(a, b) \in 0 .. 63 /\ Digit3(b, c) \in 0 .. 63 /\ Digit4(c) \in 0 .. 63
  BY <1>2, DigitsAre
<1>6. QED  BY <1>4, <1>5

LEMMA SixBitsNat ==
  ASSUME NEW t \in Seq(Octets), NEW i \in Nat \ {0}
  PROVE  SixBits(t, i) \in Nat
<1>1. SixBits(t, i) \in 0 .. 63
  BY SixBitsType
<1>2. \A x \in 0 .. 63 : x \in Nat
  OBVIOUS
<1>3. QED  BY <1>1, <1>2, Zenon

\* Groups of four, and an end.
Grouped(h, W, q, end) ==
  /\ h \in Seq(Nat) /\ Len(h) = 4 * q + Len(end)
  /\ \A g \in 1 .. q : \A k \in 1 .. 4 : h[4 * (g - 1) + k] = W[g][k]
  /\ \A k \in 1 .. Len(end) : h[4 * q + k] = end[k]

LEMMA GroupedAt ==
  ASSUME NEW q \in Nat, NEW W, NEW end, Len(end) \in Nat, NEW f, NEW h, Fours(f, W, q), Follows(h, f, end)
  PROVE  Grouped(h, W, q, end)
<1>1. PICK l, m \in Nat : l = 4 * q /\ Len(f) = l /\ m = Len(end)
  <2>1. Len(f) = 4 * q /\ 4 * q \in Nat
    BY DEF Fours
  <2>2. QED  BY <2>1
<1>2. h \in Seq(Nat) /\ Len(h) = l + m /\ \A i \in 1 .. l + m : h[i] = IF i <= l THEN f[i] ELSE end[i - l]
  BY <1>1 DEF Follows
<1>3. ASSUME NEW g \in 1 .. q, NEW k \in 1 .. 4  PROVE h[4 * (g - 1) + k] = W[g][k]
  <2>1. PICK i : i = 4 * (g - 1) + k /\ i \in 1 .. l /\ i \in 1 .. l + m /\ i <= l
    BY <1>1
  <2>2. f[i] = W[g][k]
    BY <2>1 DEF Fours
  <2>3. h[i] = f[i]
    BY <1>2, <2>1
  <2>4. QED  BY <2>1, <2>2, <2>3
<1>4. ASSUME NEW k \in 1 .. m  PROVE h[l + k] = end[k]
  <2>1. PICK i : i = l + k /\ i \in 1 .. l + m /\ ~ (i <= l) /\ i - l = k
    OBVIOUS
  <2>2. QED  BY <1>2, <2>1
<1>5. QED  BY <1>1, <1>2, <1>3, <1>4 DEF Grouped

-----------------------------------------------------------------------------
(* What the encoders make.                                                   *)

LEMMA GroupedIs ==
  ASSUME NEW q \in Nat, NEW W \in Seq(Seq(Nat)), Len(W) = q, \A g \in 1 .. q : Len(W[g]) = 4,
         NEW end \in Seq(Nat), NEW h, h = FlattenSeq(W) \o end
  PROVE  Grouped(h, W, q, end)
<1>1. Fours(FlattenSeq(W), W, q)
  BY GroupsIs
<1>2. FlattenSeq(W) \in Seq(Nat)
  BY <1>1 DEF Fours
<1>3. Follows(h, FlattenSeq(W), end)
  BY <1>2, FollowsIs
<1>4. Len(end) \in Nat
  OBVIOUS
<1>5. QED  BY <1>1, <1>3, <1>4, GroupedAt

\* Two digits for the one octet of a rest, three for two.
LEMMA RestDigits ==
  ASSUME NEW t \in Seq(Octets), NEW q, NEW r, TextSplit(t, q, r)
  PROVE  /\ r >= 1 => SixBits(t, 4 * q + 1) = Digit1(Rest(t)[1])
         /\ r = 1 => SixBits(t, 4 * q + 2) = Digit2(Rest(t)[1], 0)
         /\ r = 2 => SixBits(t, 4 * q + 2) = Digit2(Rest(t)[1], Rest(t)[2])
         /\ r = 2 => SixBits(t, 4 * q + 3) = Digit3(Rest(t)[2], 0)
         /\ r >= 1 => Rest(t)[1] \in Octets
         /\ r = 2 => Rest(t)[2] \in Octets
<1>1. PICK g \in Nat \ {0} : g = q + 1 /\ r \in 0 .. 2
  BY DEF TextSplit
<1>2. PICK a, b, c : a = OctetOf(t, 3 * g - 2) /\ b = OctetOf(t, 3 * g - 1) /\ c = OctetOf(t, 3 * g)
  OBVIOUS
<1>3. /\ a \in Octets /\ b \in Octets /\ c \in Octets
      /\ SixBits(t, 4 * g - 3) = Digit1(a) /\ SixBits(t, 4 * g - 2) = Digit2(a, b)
      /\ SixBits(t, 4 * g - 1) = Digit3(b, c)
  BY <1>2, SixBitsAre
<1>4. q \in Nat /\ 4 * g - 3 = 4 * q + 1 /\ 4 * g - 2 = 4 * q + 2 /\ 4 * g - 1 = 4 * q + 3
  BY <1>1 DEF TextSplit
<1>5. /\ r >= 1 => Rest(t)[1] = a
      /\ r = 2 => Rest(t)[2] = b
      /\ r <= 1 => b = 0
      /\ c = 0
  BY <1>1, <1>2, RestIs2
<1>6. QED  BY <1>1, <1>3, <1>4, <1>5

LEMMA BytesGrouped ==
  ASSUME NEW t \in Seq(Octets), NEW q, NEW r, TextSplit(t, q, r)
  PROVE  \E W, end : /\ Grouped(EncodeBytes(t), W, q, end)
                     /\ \A g \in 1 .. q : \A k \in 1 .. 4 : W[g][k] = SixBits(t, 4 * (g - 1) + k)
                     /\ Len(end) = IF r = 0 THEN 0 ELSE 4
                     /\ \A k \in 1 .. Len(end) : end[k] = IF k <= r + 1 THEN SixBits(t, 4 * q + k) ELSE Pad
<1>1. q \in Nat /\ Len(t) \div 3 = q /\ (r = 0 \/ r = 1 \/ r = 2)
  BY DEF TextSplit
<1> DEFINE V(g) == <<Digit1(g[1]), Digit2(g[1], g[2]), Digit3(g[2], g[3]), Digit4(g[3])>>
           W == [i \in 1 .. Len(t) \div 3 |-> V(Group(t, i))]
           end == CASE Len(Rest(t)) = 0 -> <<>>
                    [] Len(Rest(t)) = 1 -> <<Digit1(Rest(t)[1]), Digit2(Rest(t)[1], 0), Pad, Pad>>
                    [] Len(Rest(t)) = 2 -> <<Digit1(Rest(t)[1]), Digit2(Rest(t)[1], Rest(t)[2]),
                                             Digit3(Rest(t)[2], 0), Pad>>
<1>2. EncodeBytes(t) = FlattenSeq(W) \o end
  BY DEF EncodeBytes
<1>3. Len(Rest(t)) = r
  BY RestIs2
<1>4. /\ end \in Seq(Nat) /\ Len(end) = IF r = 0 THEN 0 ELSE 4
      /\ \A k \in 1 .. Len(end) : end[k] = IF k <= r + 1 THEN SixBits(t, 4 * q + k) ELSE Pad
  <2>1. CASE r = 0
    <3>1. end = <<>>
      BY <1>3, <2>1
    <3> HIDE DEF end
    <3>2. QED  BY <3>1, <2>1
  <2>2. CASE r = 1
    <3>1. end = <<Digit1(Rest(t)[1]), Digit2(Rest(t)[1], 0), Pad, Pad>>
      BY <1>3, <2>2
    <3> HIDE DEF end
    <3>2. end = <<SixBits(t, 4 * q + 1), SixBits(t, 4 * q + 2), Pad, Pad>>
      BY <3>1, <2>2, RestDigits
    <3>3. SixBits(t, 4 * q + 1) \in Nat /\ SixBits(t, 4 * q + 2) \in Nat /\ Pad \in Nat
      <4>1. 4 * q + 1 \in Nat \ {0} /\ 4 * q + 2 \in Nat \ {0}
        BY <1>1
      <4>2. QED  BY <4>1, SixBitsNat DEF Pad
    <3>4. end \in Seq(Nat) /\ Len(end) = 4
      BY <3>2, <3>3
    <3>5. ASSUME NEW k \in 1 .. 4
          PROVE  end[k] = IF k <= r + 1 THEN SixBits(t, 4 * q + k) ELSE Pad
      <4>1. k = 1 \/ k = 2 \/ k = 3 \/ k = 4
        OBVIOUS
      <4>2. QED  BY <3>2, <4>1, <2>2
    <3>6. QED  BY <3>4, <3>5, <2>2
  <2>3. CASE r = 2
    <3>1. end = <<Digit1(Rest(t)[1]), Digit2(Rest(t)[1], Rest(t)[2]), Digit3(Rest(t)[2], 0), Pad>>
      BY <1>3, <2>3
    <3> HIDE DEF end
    <3>2. end = <<SixBits(t, 4 * q + 1), SixBits(t, 4 * q + 2), SixBits(t, 4 * q + 3), Pad>>
      BY <3>1, <2>3, RestDigits
    <3>3. SixBits(t, 4 * q + 1) \in Nat /\ SixBits(t, 4 * q + 2) \in Nat /\ SixBits(t, 4 * q + 3) \in Nat /\ Pad \in Nat
      <4>1. 4 * q + 1 \in Nat \ {0} /\ 4 * q + 2 \in Nat \ {0} /\ 4 * q + 3 \in Nat \ {0}
        BY <1>1
      <4>2. QED  BY <4>1, SixBitsNat DEF Pad
    <3>4. end \in Seq(Nat) /\ Len(end) = 4
      BY <3>2, <3>3
    <3>5. ASSUME NEW k \in 1 .. 4
          PROVE  end[k] = IF k <= r + 1 THEN SixBits(t, 4 * q + k) ELSE Pad
      <4>1. k = 1 \/ k = 2 \/ k = 3 \/ k = 4
        OBVIOUS
      <4>2. QED  BY <3>2, <4>1, <2>3
    <3>6. QED  BY <3>4, <3>5, <2>3
  <2>4. QED  BY <1>1, <2>1, <2>2, <2>3
<1> HIDE DEF end
<1>5. ASSUME NEW g \in 1 .. q
      PROVE  /\ W[g] \in Seq(Nat) /\ Len(W[g]) = 4
             /\ \A k \in 1 .. 4 : W[g][k] = SixBits(t, 4 * (g - 1) + k)
  <2>1. W[g] = V(Group(t, g))
    BY <1>1
  <2>2. PICK a, b, c : a = OctetOf(t, 3 * g - 2) /\ b = OctetOf(t, 3 * g - 1) /\ c = OctetOf(t, 3 * g)
    OBVIOUS
  <2>3. Group(t, g)[1] = a /\ Group(t, g)[2] = b /\ Group(t, g)[3] = c
    BY <2>2, GroupIs
  <2>4. V(Group(t, g)) = <<Digit1(a), Digit2(a, b), Digit3(b, c), Digit4(c)>>
    BY <2>3
  <2>5. g \in Nat \ {0}
    BY <1>1
  <2>6. /\ SixBits(t, 4 * g - 3) = Digit1(a) /\ SixBits(t, 4 * g - 2) = Digit2(a, b)
        /\ SixBits(t, 4 * g - 1) = Digit3(b, c) /\ SixBits(t, 4 * g) = Digit4(c)
    BY <2>2, <2>5, SixBitsAre
  <2>7. /\ 4 * (g - 1) + 1 = 4 * g - 3 /\ 4 * (g - 1) + 2 = 4 * g - 2 /\ 4 * (g - 1) + 3 = 4 * g - 1
        /\ 4 * (g - 1) + 4 = 4 * g
        /\ 4 * g - 3 \in Nat \ {0} /\ 4 * g - 2 \in Nat \ {0} /\ 4 * g - 1 \in Nat \ {0} /\ 4 * g \in Nat \ {0}
    BY <2>5
  <2>8. PICK s1, s2, s3, s4 \in Nat :
          /\ s1 = SixBits(t, 4 * g - 3) /\ s2 = SixBits(t, 4 * g - 2)
          /\ s3 = SixBits(t, 4 * g - 1) /\ s4 = SixBits(t, 4 * g)
    <3>1. SixBits(t, 4 * g - 3) \in Nat
      BY <2>7, SixBitsNat
    <3>2. SixBits(t, 4 * g - 2) \in Nat
      BY <2>7, SixBitsNat
    <3>3. SixBits(t, 4 * g - 1) \in Nat
      BY <2>7, SixBitsNat
    <3>4. SixBits(t, 4 * g) \in Nat
      BY <2>7, SixBitsNat
    <3>5. QED  BY <3>1, <3>2, <3>3, <3>4
  <2>9. PICK w : w = W[g] /\ w = <<s1, s2, s3, s4>>
    BY <2>1, <2>4, <2>6, <2>8
  <2>10. w \in Seq(Nat) /\ Len(w) = 4
    <3> HIDE DEF W
    <3>1. QED  BY <2>8, <2>9
  <2>11. ASSUME NEW k \in 1 .. 4  PROVE w[k] = SixBits(t, 4 * (g - 1) + k)
    <3>1. w[1] = s1 /\ w[2] = s2 /\ w[3] = s3 /\ w[4] = s4
      BY <2>9
    <3>2. /\ s1 = SixBits(t, 4 * (g - 1) + 1) /\ s2 = SixBits(t, 4 * (g - 1) + 2)
          /\ s3 = SixBits(t, 4 * (g - 1) + 3) /\ s4 = SixBits(t, 4 * (g - 1) + 4)
      BY <2>7, <2>8
    <3>3. k = 1 \/ k = 2 \/ k = 3 \/ k = 4
      OBVIOUS
    <3>4. QED  BY <3>1, <3>2, <3>3
  <2>12. QED  BY <2>9, <2>10, <2>11
<1>6. W \in Seq(Seq(Nat)) /\ Len(W) = q
  <2>1. W = [i \in 1 .. q |-> W[i]]
    BY <1>1
  <2> HIDE DEF W
  <2>2. PICK U : U = Seq(Nat)
    OBVIOUS
  <2>3. \A i \in 1 .. q : W[i] \in U
    BY <1>5, <2>2
  <2>4. W \in [1 .. q -> U]
    BY <2>1, <2>3
  <2>5. W \in Seq(U) /\ Len(W) = q
    BY <2>4, <1>1
  <2>6. QED  BY <2>2, <2>5
<1> HIDE DEF W
<1>7. \A g \in 1 .. q : Len(W[g]) = 4
  BY <1>5
<1>8. Grouped(EncodeBytes(t), W, q, end)
  <2>1. PICK h : h = EncodeBytes(t) /\ h = FlattenSeq(W) \o end
    BY <1>2
  <2>2. end \in Seq(Nat)
    BY <1>4
  <2>3. QED  BY <2>1, <2>2, <1>1, <1>6, <1>7, GroupedIs
<1>9. QED  BY <1>4, <1>5, <1>8

\* The encoder of bytes, place by place.
LEMMA BytesAt ==
  ASSUME NEW t \in Seq(Octets), NEW q, NEW r, TextSplit(t, q, r), NEW d, d = IF r = 0 THEN 0 ELSE r + 1
  PROVE  /\ EncodeBytes(t) \in Seq(Nat)
         /\ Len(EncodeBytes(t)) = 4 * q + IF r = 0 THEN 0 ELSE 4
         /\ \A i \in 1 .. Len(EncodeBytes(t)) : EncodeBytes(t)[i] = IF i <= 4 * q + d THEN SixBits(t, i) ELSE Pad
<1>1. q \in Nat /\ (r = 0 \/ r = 1 \/ r = 2)
  BY DEF TextSplit
<1>2. PICK W, end : /\ Grouped(EncodeBytes(t), W, q, end)
                    /\ \A g \in 1 .. q : \A k \in 1 .. 4 : W[g][k] = SixBits(t, 4 * (g - 1) + k)
                    /\ Len(end) = IF r = 0 THEN 0 ELSE 4
                    /\ \A k \in 1 .. Len(end) : end[k] = IF k <= r + 1 THEN SixBits(t, 4 * q + k) ELSE Pad
  BY BytesGrouped
<1>3. PICK h : h = EncodeBytes(t)
  OBVIOUS
<1>4. /\ h \in Seq(Nat) /\ Len(h) = 4 * q + Len(end)
      /\ \A g \in 1 .. q : \A k \in 1 .. 4 : h[4 * (g - 1) + k] = W[g][k]
      /\ \A k \in 1 .. Len(end) : h[4 * q + k] = end[k]
  BY <1>2, <1>3 DEF Grouped
<1>5. Len(h) = 4 * q + IF r = 0 THEN 0 ELSE 4
  BY <1>2, <1>4
<1>6. ASSUME NEW i \in 1 .. Len(h)
      PROVE  h[i] = IF i <= 4 * q + d THEN SixBits(t, i) ELSE Pad
  <2>1. i \in Nat \ {0} /\ i <= 4 * q + IF r = 0 THEN 0 ELSE 4
    BY <1>1, <1>5
  <2>2. PICK g \in Nat \ {0}, k \in 1 .. 4 : i = 4 * (g - 1) + k
    BY <2>1, PlaceIs
  <2>3. g \in 1 .. q \/ (g = q + 1 /\ r # 0)
    BY <1>1, <2>1, <2>2
  <2>4. CASE g \in 1 .. q
    <3>1. i <= 4 * q + d
      BY <1>1, <2>2, <2>4
    <3>2. h[i] = W[g][k] /\ W[g][k] = SixBits(t, i)
      BY <1>2, <1>4, <2>2, <2>4
    <3>3. QED  BY <3>1, <3>2
  <2>5. CASE g = q + 1 /\ r # 0
    <3>3. d = r + 1 /\ Len(end) = 4
      BY <1>2, <2>5
    <3>4. i = 4 * q + k
      BY <1>1, <2>2, <2>5
    <3>1. i = 4 * q + k /\ Len(end) = 4 /\ (i <= 4 * q + d <=> k <= r + 1)
      BY <1>1, <3>3, <3>4
    <3>2. h[i] = end[k] /\ end[k] = IF k <= r + 1 THEN SixBits(t, i) ELSE Pad
      BY <1>2, <1>4, <3>1
    <3>5. QED  BY <3>1, <3>2
  <2>6. QED  BY <2>3, <2>4, <2>5
<1>7. QED  BY <1>3, <1>4, <1>5, <1>6

LEMMA BytesEncoded ==
  ASSUME NEW t \in Seq(Octets)
  PROVE  EncodeBytes(t) = Base64(t)
<1>1. PICK q, r : TextSplit(t, q, r)
  BY SplitIs
<1>2. q \in Nat /\ (r = 0 \/ r = 1 \/ r = 2) /\ Len(t) = 3 * q + r
  BY <1>1 DEF TextSplit
<1>3. PICK d : d = IF r = 0 THEN 0 ELSE r + 1
  OBVIOUS
<1>4. PICK h : h = EncodeBytes(t)
  OBVIOUS
<1>5. PICK m \in Nat : m = 4 * q + IF r = 0 THEN 0 ELSE 4
  BY <1>2
<1>6. h \in Seq(Nat) /\ Len(h) = m /\ \A i \in 1 .. m : h[i] = IF i <= 4 * q + d THEN SixBits(t, i) ELSE Pad
  BY <1>1, <1>3, <1>4, <1>5, BytesAt
<1>7. 4 * ((Len(t) + 2) \div 3) = m
  BY <1>1, <1>5, LengthsAre
<1>8. Base64(t) = [i \in 1 .. m |-> IF 6 * (i - 1) < 8 * Len(t) THEN SixBits(t, i) ELSE Pad]
  BY <1>7 DEF Base64
<1>9. \A i \in 1 .. m : i <= 4 * q + d <=> 6 * (i - 1) < 8 * Len(t)
  BY <1>2, <1>3, <1>5
<1>10. h = [i \in 1 .. m |-> h[i]]
  BY <1>6
<1>11. \A i \in 1 .. m : h[i] = IF 6 * (i - 1) < 8 * Len(t) THEN SixBits(t, i) ELSE Pad
  BY <1>6, <1>9
<1>12. QED  BY <1>4, <1>8, <1>10, <1>11

\* What stands before the padding.
LEMMA BodyIs ==
  ASSUME NEW s \in Seq(Nat), NEW m \in 0 .. Len(s), \A i \in 1 .. Len(s) : s[i] = Pad <=> m < i
  PROVE  Body(s) = [i \in 1 .. m |-> s[i]]
<1> DEFINE pads == {i \in DOMAIN s : s[i] = Pad}
<1>1. DOMAIN s = 1 .. Len(s) /\ Len(s) \in Nat
  OBVIOUS
<1>2. CASE m = Len(s)
  <2>1. pads = {}
    BY <1>1, <1>2
  <2>2. Body(s) = s
    BY <2>1 DEF Body, Until
  <2>3. QED  BY <1>1, <1>2, <2>2
<1>3. CASE m # Len(s)
  <2>1. m + 1 \in pads /\ \A j \in pads : m + 1 <= j
    <3>1. m \in Nat /\ m + 1 \in 1 .. Len(s) /\ m < m + 1
      <4>1. PICK l \in Nat : l = Len(s) /\ m \in 0 .. l /\ m # l
        BY <1>1, <1>3
      <4>2. m \in Nat /\ m + 1 \in 1 .. l /\ m < m + 1
        BY <4>1
      <4>3. QED  BY <4>1, <4>2
    <3>2. s[m + 1] = Pad
      BY <3>1
    <3>3. ASSUME NEW j \in pads  PROVE m + 1 <= j
      <4>1. j \in 1 .. Len(s) /\ s[j] = Pad
        BY <1>1
      <4>2. m < j
        BY <4>1
      <4>3. QED  BY <3>1, <4>1, <4>2
    <3>4. QED  BY <1>1, <3>1, <3>2, <3>3
  <2>2. pads # {}
    BY <2>1
  <2>3. pads \subseteq Nat
    BY <1>1
  <2>4. PICK c : c = CHOOSE i \in pads : \A j \in pads : i <= j
    OBVIOUS
  <2>5. Body(s) = SubSeq(s, 1, c - 1)
    BY <2>2, <2>4 DEF Body, Until
  <2> HIDE DEF pads
  <2>6. Body(s) = SubSeq(s, 1, m)
    <3>1. c \in pads /\ \A j \in pads : c <= j
      BY <2>1, <2>4
    <3>2. c <= m + 1 /\ m + 1 <= c /\ c \in Nat
      BY <2>1, <2>3, <3>1
    <3>3. c - 1 = m
      BY <1>1, <3>2
    <3>4. QED  BY <2>5, <3>3
  <2>7. SubSeq(s, 1, m) = [i \in 1 .. m |-> s[i]]
    <3>1. PICK u : u = SubSeq(s, 1, m)
      OBVIOUS
    <3>2. u \in Seq(Nat) /\ Len(u) = m /\ \A i \in 1 .. m : u[i] = s[i]
      BY <3>1, <1>1
    <3>3. u = [i \in 1 .. m |-> u[i]]
      BY <3>2
    <3>4. QED  BY <3>1, <3>2, <3>3
  <2>8. QED  BY <2>6, <2>7
<1>4. QED  BY <1>2, <1>3

LEMMA DigitsType ==
  ASSUME NEW t \in Seq(Octets)
  PROVE  DigitsOf(t) \in Seq(0 .. 63) /\ Len(DigitsOf(t)) = (4 * Len(t) + 2) \div 3
<1>1. (4 * Len(t) + 2) \div 3 \in Nat
  <2>1. PICK n \in Nat : n = Len(t)
    OBVIOUS
  <2>2. (4 * n + 2) \div 3 \in Nat
    OBVIOUS
  <2>3. QED  BY <2>1, <2>2
<1>2. PICK m \in Nat : m = (4 * Len(t) + 2) \div 3
  BY <1>1
<1>3. DigitsOf(t) = [i \in 1 .. m |-> SixBits(t, i)]
  BY <1>2 DEF DigitsOf
<1>4. ASSUME NEW i \in 1 .. m  PROVE SixBits(t, i) \in 0 .. 63
  <2>1. i \in Nat \ {0}
    OBVIOUS
  <2>2. QED  BY <2>1, SixBitsType
<1>5. DigitsOf(t) \in [1 .. m -> 0 .. 63]
  BY <1>3, <1>4
<1>6. PICK u : u = DigitsOf(t) /\ u \in [1 .. m -> 0 .. 63]
  BY <1>5
<1>7. u \in Seq(0 .. 63) /\ Len(u) = m
  BY <1>6
<1>8. QED  BY <1>2, <1>6, <1>7

LEMMA BytesBody ==
  ASSUME NEW t \in Seq(Octets)
  PROVE  Body(EncodeBytes(t)) = DigitsOf(t) /\ Body(Base64(t)) = DigitsOf(t)
<1>1. PICK q, r : TextSplit(t, q, r)
  BY SplitIs
<1>2. q \in Nat /\ (r = 0 \/ r = 1 \/ r = 2) /\ Len(t) = 3 * q + r
  BY <1>1 DEF TextSplit
<1>3. PICK d : d = IF r = 0 THEN 0 ELSE r + 1
  OBVIOUS
<1>4. PICK h : h = EncodeBytes(t)
  OBVIOUS
<1>5. PICK m \in Nat : m = 4 * q + d
  BY <1>2, <1>3
<1>6. /\ h \in Seq(Nat) /\ Len(h) = 4 * q + (IF r = 0 THEN 0 ELSE 4)
      /\ \A i \in 1 .. Len(h) : h[i] = IF i <= m THEN SixBits(t, i) ELSE Pad
  BY <1>1, <1>3, <1>4, <1>5, BytesAt
<1>7. m \in 0 .. Len(h)
  BY <1>2, <1>3, <1>5, <1>6
<1>8. ASSUME NEW i \in 1 .. Len(h)  PROVE h[i] = Pad <=> m < i
  <2>1. SixBits(t, i) \in 0 .. 63
    <3>1. i \in Nat \ {0}
      BY <1>6
    <3>2. QED  BY <3>1, SixBitsType
  <2>2. SixBits(t, i) # Pad
    <3>1. \A x \in 0 .. 63 : x # 64
      OBVIOUS
    <3>2. QED  BY <2>1, <3>1 DEF Pad
  <2>3. i <= m \/ m < i
    OBVIOUS
  <2>4. ~ (i <= m /\ m < i)
    OBVIOUS
  <2>5. QED  BY <1>6, <2>2, <2>3, <2>4
<1>9. Body(h) = [i \in 1 .. m |-> h[i]]
  BY <1>6, <1>7, <1>8, BodyIs
<1>10. \A i \in 1 .. m : h[i] = SixBits(t, i)
  <2>1. ASSUME NEW i \in 1 .. m  PROVE i \in 1 .. Len(h) /\ i <= m
    BY <1>7
  <2>2. QED  BY <1>6, <2>1
<1>11. (4 * Len(t) + 2) \div 3 = m
  BY <1>1, <1>3, <1>5, LengthsAre
<1>12. DigitsOf(t) = [i \in 1 .. m |-> SixBits(t, i)]
  BY <1>11 DEF DigitsOf
<1>13. QED  BY <1>4, <1>9, <1>10, <1>12, BytesEncoded

-----------------------------------------------------------------------------
(* What the decoder makes of digits.                                         *)

\* Groups of three, and an end.
Tripled(h, W, q, end) ==
  /\ h \in Seq(Nat) /\ Len(h) = 3 * q + Len(end)
  /\ \A g \in 1 .. q : \A k \in 1 .. 3 : h[3 * (g - 1) + k] = W[g][k]
  /\ \A k \in 1 .. Len(end) : h[3 * q + k] = end[k]

LEMMA TripledAt ==
  ASSUME NEW q \in Nat, NEW W, NEW end, Len(end) \in Nat, NEW f, NEW h, Threes(f, W, q), Follows(h, f, end)
  PROVE  Tripled(h, W, q, end)
<1>1. PICK l, m \in Nat : l = 3 * q /\ Len(f) = l /\ m = Len(end)
  <2>1. Len(f) = 3 * q /\ 3 * q \in Nat
    BY DEF Threes
  <2>2. QED  BY <2>1
<1>2. h \in Seq(Nat) /\ Len(h) = l + m /\ \A i \in 1 .. l + m : h[i] = IF i <= l THEN f[i] ELSE end[i - l]
  BY <1>1 DEF Follows
<1>3. ASSUME NEW g \in 1 .. q, NEW k \in 1 .. 3  PROVE h[3 * (g - 1) + k] = W[g][k]
  <2>1. PICK i : i = 3 * (g - 1) + k /\ i \in 1 .. l /\ i \in 1 .. l + m /\ i <= l
    BY <1>1
  <2>2. f[i] = W[g][k]
    BY <2>1 DEF Threes
  <2>3. h[i] = f[i]
    BY <1>2, <2>1
  <2>4. QED  BY <2>1, <2>2, <2>3
<1>4. ASSUME NEW k \in 1 .. m  PROVE h[l + k] = end[k]
  <2>1. PICK i : i = l + k /\ i \in 1 .. l + m /\ ~ (i <= l) /\ i - l = k
    OBVIOUS
  <2>2. QED  BY <1>2, <2>1
<1>5. QED  BY <1>1, <1>2, <1>3, <1>4 DEF Tripled

LEMMA TripledIs ==
  ASSUME NEW q \in Nat, NEW W \in Seq(Seq(Nat)), Len(W) = q, \A g \in 1 .. q : Len(W[g]) = 3,
         NEW end \in Seq(Nat), NEW h, h = FlattenSeq(W) \o end
  PROVE  Tripled(h, W, q, end)
<1>1. Threes(FlattenSeq(W), W, q)
  BY GroupsIs
<1>2. FlattenSeq(W) \in Seq(Nat)
  BY <1>1 DEF Threes
<1>3. Follows(h, FlattenSeq(W), end)
  BY <1>2, FollowsIs
<1>4. Len(end) \in Nat
  OBVIOUS
<1>5. QED  BY <1>1, <1>3, <1>4, TripledAt

\* Three octets from the four digits made of them.
LEMMA OctetsBack ==
  ASSUME NEW a \in Octets, NEW b \in Octets, NEW c \in Octets
  PROVE  /\ Digit1(a) * 4 + Digit2(a, b) \div 16 = a
         /\ (Digit2(a, b) % 16) * 16 + Digit3(b, c) \div 4 = b
         /\ (Digit3(b, c) % 4) * 64 + Digit4(c) = c
<1>1. a \in 0 .. 255 /\ b \in 0 .. 255 /\ c \in 0 .. 255
  BY DEF Octets
<1>2. PICK a1, a2, b1, b2, c1, c2 \in Nat :
        /\ a1 = a \div 4 /\ a2 = a % 4 /\ b1 = b \div 16 /\ b2 = b % 16 /\ c1 = c \div 64 /\ c2 = c % 64
  BY <1>1
<1>3. /\ a = 4 * a1 + a2 /\ a2 \in 0 .. 3 /\ b = 16 * b1 + b2 /\ b2 \in 0 .. 15 /\ b1 \in 0 .. 15
      /\ c = 64 * c1 + c2 /\ c2 \in 0 .. 63 /\ c1 \in 0 .. 3
  BY <1>1, <1>2
<1>4. Digit1(a) = a1 /\ Digit2(a, b) = a2 * 16 + b1 /\ Digit3(b, c) = b2 * 4 + c1 /\ Digit4(c) = c2
  BY <1>2 DEF Digit1, Digit2, Digit3, Digit4
<1>5. /\ (a2 * 16 + b1) \div 16 = a2 /\ (a2 * 16 + b1) % 16 = b1
      /\ (b2 * 4 + c1) \div 4 = b2 /\ (b2 * 4 + c1) % 4 = c1
  BY <1>3
<1>6. a1 * 4 + a2 = a /\ b1 * 16 + b2 = b /\ c1 * 64 + c2 = c
  BY <1>3
<1>7. Digit2(a, b) \div 16 = a2 /\ Digit2(a, b) % 16 = b1 /\ Digit3(b, c) \div 4 = b2 /\ Digit3(b, c) % 4 = c1
  BY <1>4, <1>5
<1>8. QED  BY <1>4, <1>6, <1>7

LEMMA OctetsFour ==
  ASSUME NEW t \in Seq(Octets), NEW g \in Nat \ {0}, NEW s,
         s[1] = SixBits(t, 4 * g - 3), s[2] = SixBits(t, 4 * g - 2),
         s[3] = SixBits(t, 4 * g - 1)
  PROVE  /\ Octet(s, 1) = OctetOf(t, 3 * g - 2) /\ Octet(s, 2) = OctetOf(t, 3 * g - 1)
         /\ s[4] = SixBits(t, 4 * g) => Octet(s, 3) = OctetOf(t, 3 * g)
<1>1. PICK a, b, c : a = OctetOf(t, 3 * g - 2) /\ b = OctetOf(t, 3 * g - 1) /\ c = OctetOf(t, 3 * g)
  OBVIOUS
<1>2. /\ a \in Octets /\ b \in Octets /\ c \in Octets
      /\ SixBits(t, 4 * g - 3) = Digit1(a) /\ SixBits(t, 4 * g - 2) = Digit2(a, b)
      /\ SixBits(t, 4 * g - 1) = Digit3(b, c) /\ SixBits(t, 4 * g) = Digit4(c)
  BY <1>1, SixBitsAre
<1>3. /\ Digit1(a) * 4 + Digit2(a, b) \div 16 = a
      /\ (Digit2(a, b) % 16) * 16 + Digit3(b, c) \div 4 = b
      /\ (Digit3(b, c) % 4) * 64 + Digit4(c) = c
  BY <1>2, OctetsBack
<1>4. Octet(s, 1) = s[1] * 4 + s[2] \div 16 /\ Octet(s, 2) = (s[2] % 16) * 16 + s[3] \div 4
      /\ Octet(s, 3) = (s[3] % 4) * 64 + s[4]
  BY DEF Octet
<1>5. QED  BY <1>1, <1>2, <1>3, <1>4

LEMMA OctetsTwo ==
  ASSUME NEW t \in Seq(Octets), NEW g \in Nat \ {0}, NEW s,
         s[1] = SixBits(t, 4 * g - 3), s[2] = SixBits(t, 4 * g - 2)
  PROVE  Octet(s, 1) = OctetOf(t, 3 * g - 2)
<1>1. PICK a, b, c : a = OctetOf(t, 3 * g - 2) /\ b = OctetOf(t, 3 * g - 1) /\ c = OctetOf(t, 3 * g)
  OBVIOUS
<1>2. /\ a \in Octets /\ b \in Octets /\ c \in Octets
      /\ SixBits(t, 4 * g - 3) = Digit1(a) /\ SixBits(t, 4 * g - 2) = Digit2(a, b)
  BY <1>1, SixBitsAre
<1>3. Digit1(a) * 4 + Digit2(a, b) \div 16 = a
  BY <1>2, OctetsBack
<1>4. Octet(s, 1) = s[1] * 4 + s[2] \div 16
  BY DEF Octet
<1>5. QED  BY <1>1, <1>2, <1>3, <1>4

LEMMA OctetsNat ==
  ASSUME NEW x \in Octets
  PROVE  x \in Nat
  BY DEF Octets

\* A piece of a sequence.
Piece(u, b, l, n) == Len(u) = n /\ \A k \in 1 .. n : u[k] = b[l + k]

LEMMA PieceIs ==
  ASSUME NEW T, NEW b \in Seq(T), NEW l \in Nat, NEW n \in Nat, l + n <= Len(b)
  PROVE  SubSeq(b, l + 1, l + n) \in Seq(T) /\ Piece(SubSeq(b, l + 1, l + n), b, l, n)
  BY DEF Piece

LEMMA MembersOf ==
  ASSUME NEW T, NEW b \in Seq(T)
  PROVE  (\A x \in ToSet(b) : x \in T) /\ \A i \in 1 .. Len(b) : b[i] \in ToSet(b)
  BY DEF ToSet

\* A sequence is its members.
LEMMA SequenceIs ==
  ASSUME NEW T, NEW n \in Nat, NEW F(_), \A k \in 1 .. n : F(k) \in T, NEW w, w = [k \in 1 .. n |-> F(k)]
  PROVE  w \in Seq(T) /\ Len(w) = n
<1>1. w \in [1 .. n -> T]
  OBVIOUS
<1>2. QED  BY <1>1

LEMMA SequencesSame ==
  ASSUME NEW T, NEW h \in Seq(T), NEW U, NEW t \in Seq(U), Len(h) = Len(t), \A i \in 1 .. Len(h) : h[i] = t[i]
  PROVE  h = t
<1>1. h \in [1 .. Len(h) -> T] /\ t \in [1 .. Len(t) -> U]
  OBVIOUS
<1>2. DOMAIN h = DOMAIN t /\ \A i \in DOMAIN h : h[i] = t[i]
  OBVIOUS
<1>3. h = [i \in DOMAIN h |-> h[i]] /\ t = [i \in DOMAIN t |-> t[i]]
  BY <1>1
<1>4. QED  BY <1>2, <1>3

LEMMA DigitsDecoded ==
  ASSUME NEW t \in Seq(Octets), NEW s, Body(s) = DigitsOf(t)
  PROVE  Decode(s) = t
<1>1. PICK q, r : TextSplit(t, q, r)
  BY SplitIs
<1>2. q \in Nat /\ (r = 0 \/ r = 1 \/ r = 2) /\ Len(t) = 3 * q + r
  BY <1>1 DEF TextSplit
<1>3. PICK d \in Nat : d = IF r = 0 THEN 0 ELSE r + 1
  BY <1>2
<1>4. PICK m \in Nat : m = 4 * q + d /\ m \div 4 = q /\ m % 4 = d /\ d # 1 /\ d < 4
  <2>1. 4 * q + d \in Nat /\ (4 * q + d) \div 4 = q /\ (4 * q + d) % 4 = d /\ d # 1 /\ d < 4
    <3>1. CASE r = 0
      BY <1>2, <1>3, <3>1
    <3>2. CASE r = 1
      BY <1>2, <1>3, <3>2
    <3>3. CASE r = 2
      BY <1>2, <1>3, <3>3
    <3>4. QED  BY <3>1, <3>2, <3>3, <1>2
  <2>2. QED  BY <2>1
<1>5. PICK b : b = Body(s) /\ b = DigitsOf(t)
  OBVIOUS
<1>6. b \in Seq(0 .. 63) /\ Len(b) = m /\ \A i \in 1 .. m : b[i] = SixBits(t, i)
  <2>1. (4 * Len(t) + 2) \div 3 = m
    BY <1>1, <1>3, <1>4, LengthsAre
  <2>2. DigitsOf(t) = [i \in 1 .. m |-> SixBits(t, i)]
    BY <2>1 DEF DigitsOf
  <2>3. b \in Seq(0 .. 63) /\ Len(b) = m
    BY <1>5, <2>1, DigitsType
  <2>4. QED  BY <1>5, <2>2, <2>3
<1>7. Decodable(s)
  <2>1. ToSet(b) \subseteq 0 .. Slash
    <3>1. \A x \in ToSet(b) : x \in 0 .. 63
      BY <1>6, MembersOf
    <3>2. QED  BY <3>1 DEF Slash
  <2>2. Len(b) % 4 # 1
    BY <1>4, <1>6
  <2>3. QED  BY <1>5, <2>1, <2>2 DEF Decodable
<1> DEFINE Quad(g) == SubSeq(b, 4 * g - 3, 4 * g)
           rest == SubSeq(b, Len(b) - (Len(b) % 4) + 1, Len(b))
           V == [g \in 1 .. Len(b) \div 4 |-> [i \in 1 .. 3 |-> Octet(Quad(g), i)]]
           end == [i \in 1 .. (IF rest = <<>> THEN 0 ELSE Len(rest) - 1) |-> Octet(rest, i)]
<1>8. Decode(s) = FlattenSeq(V) \o end
  BY <1>5, <1>7 DEF Decode
<1>9. /\ V = [g \in 1 .. q |-> [i \in 1 .. 3 |-> Octet(Quad(g), i)]]
      /\ rest = SubSeq(b, m - d + 1, m)
  BY <1>4, <1>6
<1>10. Len(rest) = d /\ (rest = <<>> <=> d = 0) /\ \A k \in 1 .. d : rest[k] = SixBits(t, 4 * q + k)
  <2>1. PICK l \in Nat : l = m - d /\ l = 4 * q /\ m = l + d
    BY <1>2, <1>4
  <2>2. rest = SubSeq(b, l + 1, m)
    BY <1>9, <2>1
  <2> HIDE DEF rest
  <2>3. Len(rest) = d /\ \A k \in 1 .. d : rest[k] = b[l + k]
    <3>1. l + d <= Len(b)
      BY <2>1, <1>6
    <3>2. b \in Seq(0 .. 63)
      BY <1>6
    <3>3. Piece(SubSeq(b, l + 1, l + d), b, l, d)
      BY <3>1, <3>2, PieceIs
    <3>4. Piece(rest, b, l, d)
      BY <3>3, <2>1, <2>2
    <3>5. QED  BY <3>4 DEF Piece
  <2>4. \A k \in 1 .. d : l + k \in 1 .. m
    BY <2>1
  <2>5. rest = <<>> <=> d = 0
    BY <2>3
  <2>6. QED  BY <2>1, <2>3, <2>4, <2>5, <1>6
<1>11. ASSUME NEW g \in 1 .. q
       PROVE  /\ V[g] \in Seq(Nat) /\ Len(V[g]) = 3
              /\ \A k \in 1 .. 3 : V[g][k] = OctetOf(t, 3 * (g - 1) + k)
  <2>1. V[g] = [i \in 1 .. 3 |-> Octet(Quad(g), i)]
    BY <1>9
  <2>2. PICK u : u = Quad(g)
    OBVIOUS
  <2>3. PICK l \in Nat : l = 4 * (g - 1) /\ l + 4 = 4 * g /\ l + 1 = 4 * g - 3 /\ l + 4 <= m /\ g \in Nat \ {0}
    <3>1. g \in Nat \ {0} /\ g <= q
      BY <1>2
    <3>2. 4 * g <= m
      BY <3>1, <1>2, <1>4
    <3>3. QED  BY <3>1, <3>2
  <2>4. u = SubSeq(b, l + 1, l + 4)
    BY <2>2, <2>3
  <2>5. u[1] = b[l + 1] /\ u[2] = b[l + 2] /\ u[3] = b[l + 3] /\ u[4] = b[l + 4]
    <3>1. l + 4 <= Len(b)
      BY <2>3, <1>6
    <3>2. Piece(u, b, l, 4)
      BY <3>1, <2>4, <1>6, PieceIs
    <3>3. QED  BY <3>2 DEF Piece
  <2>6. b[l + 1] = SixBits(t, l + 1) /\ b[l + 2] = SixBits(t, l + 2) /\ b[l + 3] = SixBits(t, l + 3) /\ b[l + 4] = SixBits(t, l + 4)
    <3>1. l + 1 \in 1 .. m /\ l + 2 \in 1 .. m /\ l + 3 \in 1 .. m /\ l + 4 \in 1 .. m
      BY <2>3
    <3>2. QED  BY <3>1, <1>6
  <2>7. l + 1 = 4 * g - 3 /\ l + 2 = 4 * g - 2 /\ l + 3 = 4 * g - 1 /\ l + 4 = 4 * g
    BY <2>3
  <2>8. u[1] = SixBits(t, 4 * g - 3) /\ u[2] = SixBits(t, 4 * g - 2) /\ u[3] = SixBits(t, 4 * g - 1) /\ u[4] = SixBits(t, 4 * g)
    BY <2>5, <2>6, <2>7
  <2>9. Octet(u, 1) = OctetOf(t, 3 * g - 2) /\ Octet(u, 2) = OctetOf(t, 3 * g - 1) /\ Octet(u, 3) = OctetOf(t, 3 * g)
    BY <2>3, <2>8, OctetsFour
  <2>10. 3 * (g - 1) + 1 = 3 * g - 2 /\ 3 * (g - 1) + 2 = 3 * g - 1 /\ 3 * (g - 1) + 3 = 3 * g
    BY <2>3
  <2>11. PICK w : w = V[g] /\ w = [i \in 1 .. 3 |-> Octet(u, i)]
    BY <2>1, <2>2
  <2> HIDE DEF V
  <2>12. ASSUME NEW k \in 1 .. 3  PROVE w[k] = OctetOf(t, 3 * (g - 1) + k) /\ w[k] \in Nat
    <3>1. w[1] = OctetOf(t, 3 * g - 2) /\ w[2] = OctetOf(t, 3 * g - 1) /\ w[3] = OctetOf(t, 3 * g)
      BY <2>9, <2>11
    <3>2. k = 1 \/ k = 2 \/ k = 3
      OBVIOUS
    <3>3. w[k] = OctetOf(t, 3 * (g - 1) + k)
      BY <3>1, <3>2, <2>10
    <3>4. 3 * (g - 1) + k \in Nat \ {0}
      BY <2>3
    <3>5. OctetOf(t, 3 * (g - 1) + k) \in Octets
      BY <3>4, OctetIs
    <3>6. QED  BY <3>3, <3>5, OctetsNat
  <2>13. w \in Seq(Nat) /\ Len(w) = 3
    <3>1. \A k \in 1 .. 3 : Octet(u, k) \in Nat
      BY <2>11, <2>12
    <3>2. 3 \in Nat
      OBVIOUS
    <3>3. QED  BY <3>1, <3>2, <2>11, SequenceIs
  <2>14. QED  BY <2>11, <2>12, <2>13
<1>12. V \in Seq(Seq(Nat)) /\ Len(V) = q
  <2>1. V = [i \in 1 .. q |-> V[i]]
    BY <1>9
  <2> HIDE DEF V
  <2>2. PICK U : U = Seq(Nat)
    OBVIOUS
  <2>3. \A i \in 1 .. q : V[i] \in U
    BY <1>11, <2>2
  <2>4. V \in [1 .. q -> U]
    BY <2>1, <2>3
  <2>5. V \in Seq(U) /\ Len(V) = q
    BY <2>4, <1>2
  <2>6. QED  BY <2>2, <2>5
<1>13. end \in Seq(Nat) /\ Len(end) = r /\ \A k \in 1 .. r : end[k] = OctetOf(t, 3 * q + k)
  <2>1. PICK f : f = rest
    OBVIOUS
  <2>2. Len(f) = d /\ (f = <<>> <=> d = 0) /\ \A k \in 1 .. d : f[k] = SixBits(t, 4 * q + k)
    BY <2>1, <1>10
  <2>3. end = [i \in 1 .. r |-> Octet(f, i)]
    <3>1. end = [i \in 1 .. (IF f = <<>> THEN 0 ELSE Len(f) - 1) |-> Octet(f, i)]
      BY <2>1
    <3>2. (IF f = <<>> THEN 0 ELSE Len(f) - 1) = r
      BY <2>2, <1>2, <1>3
    <3>3. QED  BY <3>1, <3>2
  <2> HIDE DEF end, rest
  <2>4. PICK g \in Nat \ {0} : g = q + 1
    BY <1>2
  <2>5. 4 * q + 1 = 4 * g - 3 /\ 4 * q + 2 = 4 * g - 2 /\ 4 * q + 3 = 4 * g - 1 /\ 3 * q + 1 = 3 * g - 2 /\ 3 * q + 2 = 3 * g - 1
    BY <2>4, <1>2
  <2>6. ASSUME NEW k \in 1 .. r  PROVE Octet(f, k) = OctetOf(t, 3 * q + k)
    <3>1. CASE r = 1
      <4>1. f[1] = SixBits(t, 4 * g - 3) /\ f[2] = SixBits(t, 4 * g - 2)
        BY <2>2, <2>5, <3>1, <1>3
      <4>2. Octet(f, 1) = OctetOf(t, 3 * g - 2)
        BY <4>1, OctetsTwo
      <4>3. k = 1
        BY <3>1
      <4>4. QED  BY <4>2, <4>3, <2>5
    <3>2. CASE r = 2
      <4>1. f[1] = SixBits(t, 4 * g - 3) /\ f[2] = SixBits(t, 4 * g - 2) /\ f[3] = SixBits(t, 4 * g - 1)
        BY <2>2, <2>5, <3>2, <1>3
      <4>2. Octet(f, 1) = OctetOf(t, 3 * g - 2) /\ Octet(f, 2) = OctetOf(t, 3 * g - 1)
        BY <4>1, OctetsFour
      <4>3. k = 1 \/ k = 2
        BY <3>2
      <4>4. QED  BY <4>2, <4>3, <2>5
    <3>3. QED  BY <3>1, <3>2, <1>2
  <2>7. ASSUME NEW k \in 1 .. r  PROVE OctetOf(t, 3 * q + k) \in Nat
    <3>1. 3 * q + k \in Nat \ {0}
      BY <1>2
    <3>2. OctetOf(t, 3 * q + k) \in Octets
      BY <3>1, OctetIs
    <3>3. QED  BY <3>2, OctetsNat
  <2>8. \A k \in 1 .. r : end[k] = OctetOf(t, 3 * q + k) /\ end[k] \in Nat
    BY <2>3, <2>6, <2>7
  <2>9. end \in [1 .. r -> Nat]
    BY <2>3, <2>8
  <2>10. end \in Seq(Nat) /\ Len(end) = r
    BY <2>9, <1>2
  <2>11. QED  BY <2>8, <2>10
<1> HIDE DEF V, end
<1>14. PICK h : h = Decode(s) /\ h = FlattenSeq(V) \o end
  BY <1>8
<1>15. Tripled(h, V, q, end)
  <2>1. \A g \in 1 .. q : Len(V[g]) = 3
    BY <1>11
  <2>2. end \in Seq(Nat)
    BY <1>13
  <2>3. QED  BY <2>1, <2>2, <1>2, <1>12, <1>14, TripledIs
<1>16. PICK n \in Nat : n = Len(t) /\ n = 3 * q + r
  BY <1>2
<1>17. /\ h \in Seq(Nat) /\ Len(h) = n
       /\ \A g \in 1 .. q : \A k \in 1 .. 3 : h[3 * (g - 1) + k] = V[g][k]
       /\ \A k \in 1 .. r : h[3 * q + k] = end[k]
  BY <1>13, <1>15, <1>16 DEF Tripled
<1>18. ASSUME NEW i \in 1 .. n  PROVE h[i] = t[i]
  <2>1. i \in Nat \ {0}
    OBVIOUS
  <2>2. PICK g \in Nat \ {0}, k \in 1 .. 3 : i = 3 * (g - 1) + k
    BY <2>1, PlaceIs
  <2>3. g \in 1 .. q \/ (g = q + 1 /\ k \in 1 .. r)
    BY <2>2, <1>2, <1>16
  <2>4. OctetOf(t, i) = t[i]
    BY <1>16 DEF OctetOf
  <2>5. CASE g \in 1 .. q
    <3>1. h[i] = V[g][k] /\ V[g][k] = OctetOf(t, i)
      BY <2>2, <2>5, <1>11, <1>17
    <3>2. QED  BY <3>1, <2>4
  <2>6. CASE g = q + 1 /\ k \in 1 .. r
    <3>1. i = 3 * q + k
      BY <2>2, <2>6, <1>2
    <3>2. h[i] = end[k] /\ end[k] = OctetOf(t, i)
      BY <3>1, <2>6, <1>13, <1>17
    <3>3. QED  BY <3>2, <2>4
  <2>7. QED  BY <2>3, <2>5, <2>6
<1>19. h = t
  BY <1>16, <1>17, <1>18, SequencesSame
<1>20. QED  BY <1>14, <1>19

-----------------------------------------------------------------------------
(* What the encoder of strings makes.                                        *)

Sign(t, i, c) == c \in Nat /\ (c = UrlSafe(SixBits(t, i)) \/ Spoils(t, i))

LEMMA SpoilsAt ==
  ASSUME NEW t \in Seq(Octets), NEW g \in Nat \ {0}
  PROVE  /\ OctetOf(t, 3 * g - 1) > 127 => Spoils(t, 4 * g - 2)
         /\ OctetOf(t, 3 * g) > 127 => Spoils(t, 4 * g - 1)
<1>1. ASSUME NEW p \in Nat \ {0}, OctetOf(t, p) > 127  PROVE p \in DOMAIN t /\ t[p] > 127
  <2>1. p <= Len(t)
    BY <1>1 DEF OctetOf
  <2>2. QED  BY <1>1, <2>1 DEF OctetOf
<1>2. PICK m \in Nat : g = m + 1 /\ 4 * g - 2 = 4 * m + 2 /\ 4 * g - 1 = 4 * m + 3 /\ 3 * g - 1 = 3 * m + 2 /\ 3 * g = 3 * m + 3
  <2>1. g - 1 \in Nat /\ g = (g - 1) + 1
    OBVIOUS
  <2>2. QED  BY <2>1
<1>6. (4 * m + 2) % 4 = 2 /\ (4 * m + 3) % 4 = 3 /\ (4 * m + 2) \div 4 = m /\ (4 * m + 3) \div 4 = m
  OBVIOUS
<1>7. 3 * m + 2 \in Nat \ {0} /\ 3 * m + 3 \in Nat \ {0}
  OBVIOUS
<1>3. ASSUME OctetOf(t, 3 * g - 1) > 127  PROVE Spoils(t, 4 * g - 2)
  BY <1>1, <1>2, <1>3, <1>6, <1>7 DEF Spoils
<1>4. ASSUME OctetOf(t, 3 * g) > 127  PROVE Spoils(t, 4 * g - 1)
  BY <1>1, <1>2, <1>4, <1>6, <1>7 DEF Spoils
<1>5. QED  BY <1>3, <1>4

LEMMA SafeIs ==
  ASSUME NEW t \in Seq(Octets), NEW i \in Nat \ {0}
  PROVE  Sign(t, i, UrlSafe(SixBits(t, i)))
<1>1. SixBits(t, i) \in Nat
  BY SixBitsNat
<1>2. UrlSafe(SixBits(t, i)) \in Nat
  BY <1>1 DEF UrlSafe
<1>3. QED  BY <1>2 DEF Sign

\* What is read in front of the alphabet is a character.
LEMMA FrontIs ==
  ASSUME front \in Fronts, NEW b \in Octets, b > 127
  PROVE  front[b \div 16 - 256 \div 16] \in Nat /\ front[b \div 64 - 256 \div 64] \in Nat
<1>1. front \in [-8..-1 -> 0..Foreign]
  BY FrontAssumption
<1>2. b \in 128..255
  BY DEF Octets
<1>3. b \div 16 - 256 \div 16 \in -8..-1 /\ b \div 64 - 256 \div 64 \in -8..-1
  BY <1>2
<1>4. \A n \in -8..-1 : front[n] \in Nat
  BY <1>1 DEF Foreign
<1>5. QED  BY <1>3, <1>4

LEMMA SignedIs ==
  ASSUME front \in Fronts, NEW t \in Seq(Octets), NEW i \in Nat \ {0}, NEW b \in Octets,
         NEW w \in {16, 64}, b > 127 => Spoils(t, i)
  PROVE  Sign(t, i, Signed(b, w, SixBits(t, i)))
<1>1. CASE b > 127
  <2>1. Signed(b, w, SixBits(t, i)) = front[b \div w - 256 \div w]
    BY <1>1 DEF Signed
  <2>2. front[b \div w - 256 \div w] \in Nat
    BY <1>1, FrontIs
  <2>3. QED  BY <1>1, <2>1, <2>2 DEF Sign
<1>2. CASE ~ (b > 127)
  <2>1. Signed(b, w, SixBits(t, i)) = UrlSafe(SixBits(t, i))
    BY <1>2 DEF Signed
  <2>2. QED  BY <2>1, SafeIs
<1>3. QED  BY <1>1, <1>2

LEMMA StringGroup ==
  ASSUME front \in Fronts, NEW t \in Seq(Octets), NEW g \in Nat \ {0}, NEW a, NEW b, NEW c,
         a = OctetOf(t, 3 * g - 2), b = OctetOf(t, 3 * g - 1), c = OctetOf(t, 3 * g)
  PROVE  /\ Sign(t, 4 * g - 3, UrlSafe(Digit1(a))) /\ Sign(t, 4 * g - 2, Signed(b, 16, Digit2(a, b)))
         /\ Sign(t, 4 * g - 1, Signed(c, 64, Digit3(b, c))) /\ Sign(t, 4 * g, UrlSafe(Digit4(c)))
         /\ b = 0 => Sign(t, 4 * g - 2, UrlSafe(Digit2(a, 0)))
         /\ c = 0 => Sign(t, 4 * g - 1, UrlSafe(Digit3(b, 0)))
<1>1. /\ SixBits(t, 4 * g - 3) = Digit1(a) /\ SixBits(t, 4 * g - 2) = Digit2(a, b)
      /\ SixBits(t, 4 * g - 1) = Digit3(b, c) /\ SixBits(t, 4 * g) = Digit4(c)
  BY SixBitsAre
<1>2. /\ 4 * g - 3 \in Nat \ {0} /\ 4 * g - 2 \in Nat \ {0} /\ 4 * g - 1 \in Nat \ {0} /\ 4 * g \in Nat \ {0}
      /\ 3 * g - 1 \in Nat \ {0} /\ 3 * g \in Nat \ {0}
  OBVIOUS
<1>10. b \in Octets /\ c \in Octets /\ (b > 127 => Spoils(t, 4 * g - 2)) /\ (c > 127 => Spoils(t, 4 * g - 1))
  BY <1>2, OctetIs, SpoilsAt
<1>3. Sign(t, 4 * g - 3, UrlSafe(Digit1(a)))
  BY <1>1, <1>2, SafeIs
<1>4. Sign(t, 4 * g - 2, Signed(b, 16, Digit2(a, b)))
  BY <1>1, <1>2, <1>10, SignedIs
<1>5. Sign(t, 4 * g - 1, Signed(c, 64, Digit3(b, c)))
  BY <1>1, <1>2, <1>10, SignedIs
<1>6. Sign(t, 4 * g, UrlSafe(Digit4(c)))
  BY <1>1, <1>2, SafeIs
<1>7. b = 0 => Sign(t, 4 * g - 2, UrlSafe(Digit2(a, 0)))
  BY <1>1, <1>2, SafeIs
<1>8. c = 0 => Sign(t, 4 * g - 1, UrlSafe(Digit3(b, 0)))
  BY <1>1, <1>2, SafeIs
<1>9. QED  BY <1>3, <1>4, <1>5, <1>6, <1>7, <1>8

LEMMA StringGrouped ==
  ASSUME front \in Fronts, NEW t \in Seq(Octets), NEW q, NEW r, TextSplit(t, q, r)
  PROVE  \E W, end : /\ Grouped(StringDigits(t), W, q, end)
                     /\ \A g \in 1 .. q : \A k \in 1 .. 4 : Sign(t, 4 * (g - 1) + k, W[g][k])
                     /\ Len(end) = IF r = 0 THEN 0 ELSE r + 1
                     /\ \A k \in 1 .. Len(end) : Sign(t, 4 * q + k, end[k])
<1>1. q \in Nat /\ Len(t) \div 3 = q /\ (r = 0 \/ r = 1 \/ r = 2)
  BY DEF TextSplit
<1> DEFINE V(g) == <<UrlSafe(Digit1(g[1])), Signed(g[2], 16, Digit2(g[1], g[2])),
                    Signed(g[3], 64, Digit3(g[2], g[3])), UrlSafe(Digit4(g[3]))>>
           W == [i \in 1 .. Len(t) \div 3 |-> V(Group(t, i))]
           end == CASE Len(Rest(t)) = 0 -> <<>>
               [] Len(Rest(t)) = 1 -> <<UrlSafe(Digit1(Rest(t)[1])), UrlSafe(Digit2(Rest(t)[1], 0))>>
               [] Len(Rest(t)) = 2 -> <<UrlSafe(Digit1(Rest(t)[1])), Signed(Rest(t)[2], 16, Digit2(Rest(t)[1], Rest(t)[2])),
                                        UrlSafe(Digit3(Rest(t)[2], 0))>>
<1>2. StringDigits(t) = FlattenSeq(W) \o end
  BY DEF StringDigits
<1>3. Len(Rest(t)) = r
  BY RestIs2
<1>4. /\ end \in Seq(Nat) /\ Len(end) = IF r = 0 THEN 0 ELSE r + 1
      /\ \A k \in 1 .. Len(end) : Sign(t, 4 * q + k, end[k])
  <2>1. PICK g \in Nat \ {0} : g = q + 1 /\ 4 * q + 1 = 4 * g - 3 /\ 4 * q + 2 = 4 * g - 2 /\ 4 * q + 3 = 4 * g - 1
    BY <1>1
  <2>2. PICK a, b, c : a = OctetOf(t, 3 * g - 2) /\ b = OctetOf(t, 3 * g - 1) /\ c = OctetOf(t, 3 * g)
    OBVIOUS
  <2>3. /\ r >= 1 => Rest(t)[1] = a
        /\ r = 2 => Rest(t)[2] = b
        /\ r <= 1 => b = 0
        /\ c = 0
    BY <2>1, <2>2, RestIs2
  <2>4. /\ Sign(t, 4 * q + 1, UrlSafe(Digit1(a))) /\ Sign(t, 4 * q + 2, Signed(b, 16, Digit2(a, b)))
        /\ b = 0 => Sign(t, 4 * q + 2, UrlSafe(Digit2(a, 0)))
        /\ Sign(t, 4 * q + 3, UrlSafe(Digit3(b, 0)))
    BY <2>1, <2>2, <2>3, StringGroup
  <2>5. CASE r = 0
    <3>1. end = <<>>
      BY <1>3, <2>5
    <3> HIDE DEF end
    <3>2. QED  BY <3>1, <2>5
  <2>6. CASE r = 1
    <3>1. end = <<UrlSafe(Digit1(a)), UrlSafe(Digit2(a, 0))>> /\ b = 0
      BY <1>3, <2>6, <2>3
    <3> HIDE DEF end
    <3>2. PICK x, y : x = UrlSafe(Digit1(a)) /\ y = UrlSafe(Digit2(a, 0)) /\ Sign(t, 4 * q + 1, x) /\ Sign(t, 4 * q + 2, y)
      BY <2>4, <3>1
    <3>3. x \in Nat /\ y \in Nat
      BY <3>2 DEF Sign
    <3>4. end = <<x, y>>
      BY <3>1, <3>2
    <3>5. end \in Seq(Nat) /\ Len(end) = 2 /\ end[1] = x /\ end[2] = y
      BY <3>3, <3>4
    <3>6. ASSUME NEW k \in 1 .. 2  PROVE Sign(t, 4 * q + k, end[k])
      <4>1. k = 1 \/ k = 2
        OBVIOUS
      <4>2. QED  BY <3>2, <3>5, <4>1
    <3>7. QED  BY <3>5, <3>6, <2>6
  <2>7. CASE r = 2
    <3>1. end = <<UrlSafe(Digit1(a)), Signed(b, 16, Digit2(a, b)), UrlSafe(Digit3(b, 0))>>
      BY <1>3, <2>7, <2>3
    <3> HIDE DEF end
    <3>2. PICK x, y, z : /\ x = UrlSafe(Digit1(a)) /\ y = Signed(b, 16, Digit2(a, b)) /\ z = UrlSafe(Digit3(b, 0))
                         /\ Sign(t, 4 * q + 1, x) /\ Sign(t, 4 * q + 2, y) /\ Sign(t, 4 * q + 3, z)
      BY <2>4
    <3>3. x \in Nat /\ y \in Nat /\ z \in Nat
      BY <3>2 DEF Sign
    <3>4. end = <<x, y, z>>
      BY <3>1, <3>2
    <3>5. end \in Seq(Nat) /\ Len(end) = 3 /\ end[1] = x /\ end[2] = y /\ end[3] = z
      BY <3>3, <3>4
    <3>6. ASSUME NEW k \in 1 .. 3  PROVE Sign(t, 4 * q + k, end[k])
      <4>1. k = 1 \/ k = 2 \/ k = 3
        OBVIOUS
      <4>2. QED  BY <3>2, <3>5, <4>1
    <3>7. QED  BY <3>5, <3>6, <2>7
  <2>8. QED  BY <1>1, <2>5, <2>6, <2>7
<1> HIDE DEF end
<1>5. ASSUME NEW g \in 1 .. q
      PROVE  /\ W[g] \in Seq(Nat) /\ Len(W[g]) = 4
             /\ \A k \in 1 .. 4 : Sign(t, 4 * (g - 1) + k, W[g][k])
  <2>1. W[g] = V(Group(t, g))
    BY <1>1
  <2>2. PICK a, b, c : a = OctetOf(t, 3 * g - 2) /\ b = OctetOf(t, 3 * g - 1) /\ c = OctetOf(t, 3 * g)
    OBVIOUS
  <2>3. Group(t, g)[1] = a /\ Group(t, g)[2] = b /\ Group(t, g)[3] = c
    BY <2>2, GroupIs
  <2>4. V(Group(t, g)) = <<UrlSafe(Digit1(a)), Signed(b, 16, Digit2(a, b)), Signed(c, 64, Digit3(b, c)), UrlSafe(Digit4(c))>>
    BY <2>3
  <2>5. g \in Nat \ {0}
    BY <1>1
  <2>6. /\ 4 * (g - 1) + 1 = 4 * g - 3 /\ 4 * (g - 1) + 2 = 4 * g - 2 /\ 4 * (g - 1) + 3 = 4 * g - 1
        /\ 4 * (g - 1) + 4 = 4 * g
    BY <2>5
  <2>7. PICK s1, s2, s3, s4 :
          /\ s1 = UrlSafe(Digit1(a)) /\ s2 = Signed(b, 16, Digit2(a, b))
          /\ s3 = Signed(c, 64, Digit3(b, c)) /\ s4 = UrlSafe(Digit4(c))
    OBVIOUS
  <2>8. /\ Sign(t, 4 * (g - 1) + 1, s1) /\ Sign(t, 4 * (g - 1) + 2, s2)
        /\ Sign(t, 4 * (g - 1) + 3, s3) /\ Sign(t, 4 * (g - 1) + 4, s4)
    BY <2>2, <2>5, <2>6, <2>7, StringGroup
  <2>9. s1 \in Nat /\ s2 \in Nat /\ s3 \in Nat /\ s4 \in Nat
    BY <2>8 DEF Sign
  <2>10. PICK w : w = W[g] /\ w = <<s1, s2, s3, s4>>
    BY <2>1, <2>4, <2>7
  <2> HIDE DEF W
  <2>11. w \in Seq(Nat) /\ Len(w) = 4 /\ w[1] = s1 /\ w[2] = s2 /\ w[3] = s3 /\ w[4] = s4
    BY <2>9, <2>10
  <2>12. ASSUME NEW k \in 1 .. 4  PROVE Sign(t, 4 * (g - 1) + k, w[k])
    <3>1. k = 1 \/ k = 2 \/ k = 3 \/ k = 4
      OBVIOUS
    <3>2. QED  BY <2>8, <2>11, <3>1
  <2>13. QED  BY <2>10, <2>11, <2>12
<1>6. W \in Seq(Seq(Nat)) /\ Len(W) = q
  <2>1. W = [i \in 1 .. q |-> W[i]]
    BY <1>1
  <2> HIDE DEF W
  <2>2. PICK U : U = Seq(Nat)
    OBVIOUS
  <2>3. \A i \in 1 .. q : W[i] \in U
    BY <1>5, <2>2
  <2>4. W \in [1 .. q -> U]
    BY <2>1, <2>3
  <2>5. W \in Seq(U) /\ Len(W) = q
    BY <2>4, <1>1
  <2>6. QED  BY <2>2, <2>5
<1> HIDE DEF W
<1>7. \A g \in 1 .. q : Len(W[g]) = 4
  BY <1>5
<1>8. Grouped(StringDigits(t), W, q, end)
  <2>1. PICK h : h = StringDigits(t) /\ h = FlattenSeq(W) \o end
    BY <1>2
  <2>2. end \in Seq(Nat)
    BY <1>4
  <2>3. QED  BY <2>1, <2>2, <1>1, <1>6, <1>7, GroupedIs
<1>9. QED  BY <1>4, <1>5, <1>8

LEMMA StringAt ==
  ASSUME front \in Fronts, NEW t \in Seq(Octets)
  PROVE  /\ StringDigits(t) \in Seq(Nat) /\ Len(StringDigits(t)) = Len(DigitsOf(t))
         /\ \A i \in 1 .. Len(StringDigits(t)) : Sign(t, i, StringDigits(t)[i])
<1>1. PICK q, r : TextSplit(t, q, r)
  BY SplitIs
<1>2. q \in Nat /\ (r = 0 \/ r = 1 \/ r = 2)
  BY <1>1 DEF TextSplit
<1>3. PICK W, end : /\ Grouped(StringDigits(t), W, q, end)
                    /\ \A g \in 1 .. q : \A k \in 1 .. 4 : Sign(t, 4 * (g - 1) + k, W[g][k])
                    /\ Len(end) = IF r = 0 THEN 0 ELSE r + 1
                    /\ \A k \in 1 .. Len(end) : Sign(t, 4 * q + k, end[k])
  BY <1>1, StringGrouped
<1>4. PICK h : h = StringDigits(t)
  OBVIOUS
<1>5. PICK d \in Nat : d = IF r = 0 THEN 0 ELSE r + 1
  BY <1>2
<1>6. /\ h \in Seq(Nat) /\ Len(h) = 4 * q + d
      /\ \A g \in 1 .. q : \A k \in 1 .. 4 : h[4 * (g - 1) + k] = W[g][k]
      /\ \A k \in 1 .. d : h[4 * q + k] = end[k]
  BY <1>3, <1>4, <1>5 DEF Grouped
<1>7. Len(DigitsOf(t)) = 4 * q + d
  BY <1>1, <1>5, LengthsAre, DigitsType
<1>8. ASSUME NEW i \in 1 .. 4 * q + d  PROVE Sign(t, i, h[i])
  <2>1. i \in Nat \ {0} /\ i <= 4 * q + d
    BY <1>2
  <2>2. PICK g \in Nat \ {0}, k \in 1 .. 4 : i = 4 * (g - 1) + k
    BY <2>1, PlaceIs
  <2>3. g \in 1 .. q \/ (g = q + 1 /\ k \in 1 .. d)
    BY <1>2, <1>5, <2>1, <2>2
  <2>4. CASE g \in 1 .. q
    <3>1. h[i] = W[g][k] /\ Sign(t, i, W[g][k])
      BY <1>3, <1>6, <2>2, <2>4
    <3>2. QED  BY <3>1
  <2>5. CASE g = q + 1 /\ k \in 1 .. d
    <3>1. i = 4 * q + k /\ Len(end) = d
      BY <1>2, <1>3, <1>5, <2>2, <2>5
    <3>2. h[i] = end[k] /\ Sign(t, i, end[k])
      BY <1>3, <1>6, <3>1, <2>5
    <3>3. QED  BY <3>2
  <2>6. QED  BY <2>3, <2>4, <2>5
<1>9. QED  BY <1>4, <1>6, <1>7, <1>8

LEMMA SignChar ==
  ASSUME NEW t \in Seq(Octets), NEW i \in Nat \ {0}, NEW c, Sign(t, i, c), ~Spoils(t, i)
  PROVE  /\ c # Pad /\ c # Nul
         /\ \/ SixBits(t, i) \in 0 .. 61 /\ c = SixBits(t, i)
            \/ SixBits(t, i) \notin 0 .. 61 /\ c \notin 0 .. Slash
<1>1. PICK x \in 0 .. 63 : x = SixBits(t, i)
  BY SixBitsType
<1>2. c = UrlSafe(x)
  BY <1>1 DEF Sign
<1>3. \/ x \in 0 .. 61 /\ c = x
      \/ x \in {62, 63} /\ c \in {65, 66}
  BY <1>2 DEF UrlSafe, Plus
<1>4. \A y \in 0 .. 61 : y # 64 /\ y # 67
  OBVIOUS
<1>5. \A y \in {65, 66} : y # 64 /\ y # 67 /\ y \notin 0 .. 63
  OBVIOUS
<1>6. \A y \in {62, 63} : y \notin 0 .. 61
  OBVIOUS
<1>7. CASE x \in 0 .. 61 /\ c = x
  BY <1>1, <1>4, <1>7 DEF Pad, Nul
<1>8. CASE x \in {62, 63} /\ c \in {65, 66}
  <2>1. c # Pad /\ c # Nul /\ c \notin 0 .. Slash
    BY <1>5, <1>8, Zenon DEF Pad, Nul, Slash
  <2>2. SixBits(t, i) \notin 0 .. 61
    BY <1>1, <1>6, <1>8, Zenon
  <2>3. QED  BY <2>1, <2>2
<1>9. QED  BY <1>3, <1>7, <1>8

\* What is left of a text up to a character of some kind.
LEMMA UntilIs ==
  ASSUME NEW h \in Seq(Nat), NEW e
  PROVE  /\ Len(Until(h, e)) <= Len(h) /\ Len(Until(h, e)) \in Nat
         /\ \A i \in 1 .. Len(Until(h, e)) : Until(h, e)[i] = h[i]
         /\ DOMAIN Until(h, e) = 1 .. Len(Until(h, e))
         /\ (\A i \in DOMAIN h : h[i] # e) => Until(h, e) = h
<1> DEFINE ends == {i \in DOMAIN h : h[i] = e}
<1>1. PICK n \in Nat : n = Len(h) /\ DOMAIN h = 1 .. n
  OBVIOUS
<1>2. CASE ends = {}
  <2>1. Until(h, e) = h
    BY <1>2 DEF Until
  <2>2. QED  BY <1>1, <2>1
<1>3. CASE ends # {}
  <2>1. ends \subseteq Nat
    BY <1>1
  <2>2. PICK c : c = CHOOSE i \in ends : \A j \in ends : i <= j
    OBVIOUS
  <2>3. c \in ends
    <3>1. \E i \in ends : \A j \in ends : i <= j
      BY <2>1, <1>3, LeastMember
    <3>2. QED  BY <2>2, <3>1
  <2>4. PICK m \in Nat : m = c - 1 /\ m <= n
    BY <1>1, <2>3
  <2>5. PICK f : f = SubSeq(h, 1, m)
    OBVIOUS
  <2>6. Until(h, e) = f
    BY <1>3, <2>2, <2>4, <2>5 DEF Until
  <2>7. ~(\A i \in DOMAIN h : h[i] # e)
    BY <1>3
  <2> HIDE DEF ends
  <2>8. Len(f) = m /\ DOMAIN f = 1 .. m /\ \A i \in 1 .. m : f[i] = h[i]
    BY <1>1, <2>4, <2>5
  <2>9. QED  BY <1>1, <2>4, <2>6, <2>7, <2>8
<1>4. QED  BY <1>2, <1>3

\* What is claimed of the encoder of strings.
StringEncoded(t) ==
  LET code == EncodeString(t)  digits == Body(Base64(t)) IN
  /\ Len(code) <= Len(digits)
  /\ \A i \in DOMAIN code : code[i] = UrlSafe(digits[i]) \/ Spoils(t, i)
  /\ (\A i \in DOMAIN digits : ~Spoils(t, i)) =>
       /\ Len(code) = Len(digits)
       /\ IF ToSet(digits) \subseteq 0 .. 61 THEN Decode(code) = t ELSE FileText(code) = <<>>

LEMMA StringDecoded ==
  ASSUME front \in Fronts, NEW t \in Seq(Octets)
  PROVE  StringEncoded(t)
<1>1. PICK h, e, u : h = StringDigits(t) /\ e = EncodeString(t) /\ u = DigitsOf(t)
  OBVIOUS
<1>2. PICK n \in Nat : n = Len(u)
  BY <1>1, DigitsType
<1>3. h \in Seq(Nat) /\ Len(h) = n /\ \A i \in 1 .. n : Sign(t, i, h[i])
  BY <1>1, <1>2, StringAt
<1>4. e = Until(h, Nul) /\ Body(Base64(t)) = u
  BY <1>1, BytesBody DEF EncodeString
<1>5. /\ Len(e) <= n /\ Len(e) \in Nat /\ DOMAIN e = 1 .. Len(e) /\ \A i \in 1 .. Len(e) : e[i] = h[i]
      /\ (\A i \in DOMAIN h : h[i] # Nul) => e = h
  BY <1>3, <1>4, UntilIs
<1>6. u \in Seq(0 .. 63) /\ DOMAIN u = 1 .. n /\ \A i \in 1 .. n : u[i] = SixBits(t, i)
  <2>1. n = (4 * Len(t) + 2) \div 3 /\ u \in Seq(0 .. 63)
    BY <1>1, <1>2, DigitsType
  <2>2. u = [i \in 1 .. n |-> SixBits(t, i)]
    BY <1>1, <2>1 DEF DigitsOf
  <2>3. QED  BY <2>1, <2>2
<1>7. \A i \in DOMAIN e : e[i] = UrlSafe(u[i]) \/ Spoils(t, i)
  <2>1. \A i \in DOMAIN e : i \in 1 .. n
    BY <1>2, <1>5
  <2>2. QED  BY <1>3, <1>5, <1>6, <2>1 DEF Sign
<1>8. ASSUME \A i \in DOMAIN u : ~Spoils(t, i)
      PROVE  /\ Len(e) = n
             /\ IF ToSet(u) \subseteq 0 .. 61 THEN Decode(e) = t ELSE FileText(e) = <<>>
  <2>1. ASSUME NEW i \in 1 .. n
        PROVE  /\ h[i] # Pad /\ h[i] # Nul
               /\ \/ u[i] \in 0 .. 61 /\ h[i] = u[i]
                  \/ u[i] \notin 0 .. 61 /\ h[i] \notin 0 .. Slash
    <3>1. i \in Nat \ {0}
      OBVIOUS
    <3>2. QED  BY <3>1, <1>3, <1>6, <1>8, SignChar
  <2>2. DOMAIN h = 1 .. n
    BY <1>3
  <2>3. e = h
    BY <1>5, <2>1, <2>2
  <2>4. Body(h) = h
    <3>1. \A i \in DOMAIN h : h[i] # Pad
      BY <2>1, <2>2
    <3>2. QED  BY <1>3, <3>1, UntilIs DEF Body
  <2>5. CASE ToSet(u) \subseteq 0 .. 61
    <3>1. \A i \in 1 .. n : u[i] \in 0 .. 61
      BY <1>2, <1>6, <2>5, MembersOf
    <3>2. \A i \in 1 .. Len(h) : h[i] = u[i]
      BY <1>3, <2>1, <3>1
    <3>3. h = u
      BY <1>2, <1>3, <1>6, <3>2, SequencesSame
    <3>4. Decode(h) = t
      BY <1>1, <2>4, <3>3, DigitsDecoded
    <3>5. Decode(e) = t /\ Len(e) = n
      BY <1>3, <2>3, <3>4
    <3>6. QED  BY <2>5, <3>5
  <2>6. CASE ~ (ToSet(u) \subseteq 0 .. 61)
    <3>1. PICK i \in 1 .. n : u[i] \notin 0 .. 61
      BY <1>6, <2>6 DEF ToSet
    <3>2. h[i] \in ToSet(h) /\ h[i] \notin 0 .. Slash
      BY <1>3, <2>1, <3>1, MembersOf
    <3>3. ~ Decodable(h)
      BY <2>4, <3>2 DEF Decodable
    <3>4. Decode(h) = Undecoded
      BY <3>3 DEF Decode
    <3>5. <<>> \in Seq(Nat) /\ \A k \in DOMAIN <<>> : <<>>[k] # 0
      OBVIOUS
    <3>6. Until(<<>>, 0) = <<>>
      BY <3>5, UntilIs
    <3>7. FileText(h) = <<>>
      BY <3>4, <3>6 DEF FileText
    <3>8. QED  BY <1>3, <2>3, <2>6, <3>7
  <2>7. QED  BY <2>5, <2>6
<1>9. QED  BY <1>1, <1>2, <1>4, <1>5, <1>6, <1>7, <1>8 DEF StringEncoded

LEMMA WrittenIs ==
  ASSUME NEW t \in Seq(Octets), NEW s, Decode(s) = t
  PROVE  IsPrefix(FileText(s), t) /\ (0 \notin ToSet(t) => FileText(s) = t)
<1>1. t # Undecoded
  <2>1. CASE t = <<-1>>
    <3>1. t[1] = -1 /\ Len(t) = 1
      BY <2>1
    <3>2. t[1] \in 0 .. 255
      <4>1. t[1] \in Octets
        BY <3>1
      <4>2. QED  BY <4>1 DEF Octets
    <3>3. QED  BY <3>1, <3>2
  <2>2. QED  BY <2>1 DEF Undecoded
<1>2. PICK n \in Nat : n = Len(t) /\ DOMAIN t = 1 .. n
  OBVIOUS
<1> DEFINE zeros == {i \in DOMAIN t : t[i] = 0}
<1>3. FileText(s) = IF zeros = {} THEN t ELSE SubSeq(t, 1, (CHOOSE i \in zeros : \A j \in zeros : i <= j) - 1)
  BY <1>1 DEF FileText, Until
<1>4. CASE zeros = {}
  <2>1. FileText(s) = t
    BY <1>3, <1>4
  <2>2. IsPrefix(t, t)
    BY <1>2 DEF IsPrefix
  <2>3. QED  BY <2>1, <2>2
<1>5. CASE zeros # {}
  <2>1. zeros \subseteq Nat
    BY <1>2
  <2>2. PICK c : c = CHOOSE i \in zeros : \A j \in zeros : i <= j
    OBVIOUS
  <2>3. c \in zeros
    <3>1. \E i \in zeros : \A j \in zeros : i <= j
      BY <2>1, <1>5, LeastMember
    <3>2. QED  BY <2>2, <3>1
  <2>4. c \in 1 .. n /\ t[c] = 0
    BY <1>2, <2>3
  <2>5. 0 \in ToSet(t)
    BY <1>2, <2>4, MembersOf
  <2>6. PICK m \in Nat : m = c - 1 /\ m <= n
    BY <2>4
  <2>7. PICK f : f = SubSeq(t, 1, m)
    OBVIOUS
  <2>8. FileText(s) = f
    BY <1>3, <1>5, <2>2, <2>6, <2>7
  <2> HIDE DEF zeros
  <2>9. Len(f) = m /\ f \in Seq(Octets) /\ \A i \in 1 .. m : f[i] = t[i]
    BY <1>2, <2>6, <2>7
  <2>10. SubSeq(f, 1, m) = f
    BY <2>9
  <2>11. IsPrefix(f, t)
    BY <1>2, <2>6, <2>7, <2>9, <2>10 DEF IsPrefix
  <2>12. QED  BY <2>5, <2>8, <2>11
<1>6. QED  BY <1>4, <1>5

LEMMA Base64Inverts ==
  ASSUME front \in Fronts, NEW t \in Seq(Octets)
  PROVE  /\ EncodeBytes(t) = Base64(t)
         /\ Decode(EncodeBytes(t)) = t
         /\ StringEncoded(t)
         /\ IsPrefix(FileText(EncodeBytes(t)), t)
         /\ 0 \notin ToSet(t) => FileText(EncodeBytes(t)) = t
<1>1. Body(EncodeBytes(t)) = DigitsOf(t)
  BY BytesBody
<1>2. Decode(EncodeBytes(t)) = t
  BY <1>1, DigitsDecoded
<1>3. IsPrefix(FileText(EncodeBytes(t)), t) /\ (0 \notin ToSet(t) => FileText(EncodeBytes(t)) = t)
  BY <1>2, WrittenIs
<1>4. QED  BY <1>2, <1>3, BytesEncoded, StringDecoded

-----------------------------------------------------------------------------
(* RC4 and its hexadecimal form.                                             *)

\* f has the k turns from m on.
Turning(f, m, k) == f = [n \in 0 .. k |-> IF n = 0 THEN m ELSE Stirred(f[n - 1])]

LEMMA TurningIs ==
  ASSUME NEW m, NEW k \in Nat
  PROVE  \E f : Turning(f, m, k)
<1> DEFINE T == {n \in Nat : ~ \E f : Turning(f, m, n)}
<1> SUFFICES ASSUME T # {}  PROVE FALSE
  OBVIOUS
<1>1. PICK n \in T : \A y \in T : n <= y
  <2>1. T \subseteq Nat
    OBVIOUS
  <2> HIDE DEF T
  <2>2. QED  BY <2>1, LeastMember
<1>2. n # 0
  <2>1. SUFFICES ASSUME n = 0  PROVE \E f : Turning(f, m, n)
    OBVIOUS
  <2>2. Turning([i \in 0 .. 0 |-> m], m, 0)
    BY DEF Turning
  <2>3. QED  BY <2>1, <2>2
<1>3. n \in Nat \ {0} /\ n - 1 \in Nat /\ n - 1 \notin T
  BY <1>1, <1>2
<1>4. PICK g : Turning(g, m, n - 1)
  BY <1>3
<1> DEFINE h == [i \in 0 .. n |-> IF i < n THEN g[i] ELSE Stirred(g[n - 1])]
           k2 == [i \in 0 .. n |-> IF i = 0 THEN m ELSE Stirred(h[i - 1])]
<1>5. g = [i \in 0 .. n - 1 |-> IF i = 0 THEN m ELSE Stirred(g[i - 1])]
  BY <1>4 DEF Turning
<1>6. ASSUME NEW i \in 0 .. n  PROVE h[i] = IF i = 0 THEN m ELSE Stirred(h[i - 1])
  <2>1. CASE i = 0
    <3>1. h[i] = g[0] /\ g[0] = m
      BY <1>3, <1>5, <2>1
    <3>2. QED  BY <2>1, <3>1
  <2>2. CASE i # 0 /\ i < n
    <3>1. i \in 0 .. n - 1 /\ i - 1 \in 0 .. n /\ i - 1 < n
      BY <1>3, <2>2
    <3>2. h[i] = g[i] /\ h[i - 1] = g[i - 1]
      BY <2>2, <3>1
    <3>3. g[i] = Stirred(g[i - 1])
      BY <1>5, <2>2, <3>1
    <3>4. QED  BY <2>2, <3>2, <3>3
  <2>3. CASE i = n
    <3>1. n - 1 \in 0 .. n /\ n - 1 < n /\ n \in 0 .. n /\ ~ (n < n)
      BY <1>3
    <3>2. h[n - 1] = g[n - 1] /\ h[n] = Stirred(g[n - 1])
      BY <3>1
    <3>3. QED  BY <1>2, <2>3, <3>2
  <2>4. i = 0 \/ (i # 0 /\ i < n) \/ i = n
    BY <1>3
  <2>5. QED  BY <2>1, <2>2, <2>3, <2>4
<1>7. h = k2
  <2>1. \A i \in 0 .. n : h[i] = k2[i]
    BY <1>6
  <2>2. h = [i \in 0 .. n |-> h[i]] /\ k2 = [i \in 0 .. n |-> k2[i]]
    OBVIOUS
  <2> HIDE DEF h, k2
  <2>3. QED  BY <2>1, <2>2
<1>8. Turning(h, m, n)
  BY <1>7 DEF Turning
<1> HIDE DEF h, k2
<1>9. QED  BY <1>1, <1>8

LEMMA TurnedAt ==
  ASSUME NEW m, NEW k \in Nat, NEW f, Turning(f, m, k), NEW n \in 0 .. k
  PROVE  f[n] = IF n = 0 THEN m ELSE Stirred(f[n - 1])
<1>1. PICK h : h = f /\ f = [i \in 0 .. k |-> IF i = 0 THEN m ELSE Stirred(h[i - 1])]
  BY DEF Turning
<1>2. QED  BY <1>1

\* S with an i and a j in it; a turn keeps it one.
Ready(m) == \E s \in [Octets -> Octets], i \in Octets, j \in Octets : m = [s |-> s, i |-> i, j |-> j]

LEMMA Mod256 ==
  ASSUME NEW x \in Nat
  PROVE  x % 256 \in Octets
  BY DEF Octets

LEMMA OctetsSum ==
  ASSUME NEW x \in Octets, NEW y \in Octets
  PROVE  (x + y) % 256 \in Octets
<1>1. x \in Nat /\ y \in Nat
  BY OctetsNat
<1>2. x + y \in Nat
  BY <1>1
<1>3. QED  BY <1>2, Mod256

LEMMA StirredReady ==
  ASSUME NEW m, Ready(m)
  PROVE  Ready(Stirred(m))
<1>1. PICK s \in [Octets -> Octets], i \in Octets, j \in Octets : m = [s |-> s, i |-> i, j |-> j]
  BY DEF Ready
<1>2. PICK i2 : i2 = (i + 1) % 256
  OBVIOUS
<1>3. i2 \in Octets
  <2>1. i + 1 \in Nat
    BY OctetsNat
  <2>2. QED  BY <1>2, <2>1, Mod256
<1>4. PICK j2 : j2 = (j + s[i2]) % 256
  OBVIOUS
<1>5. j2 \in Octets
  BY <1>3, <1>4, OctetsSum
<1>6. Stirred(m) = [s |-> Exchanged(s, i2, j2), i |-> i2, j |-> j2]
  BY <1>1, <1>2, <1>4 DEF Stirred
<1>7. Exchanged(s, i2, j2) \in [Octets -> Octets]
  BY <1>3, <1>5 DEF Exchanged
<1>8. QED  BY <1>3, <1>5, <1>6, <1>7 DEF Ready

LEMMA DrawnOctet ==
  ASSUME NEW m, Ready(m)
  PROVE  Drawn(m) \in Octets
<1>1. PICK s \in [Octets -> Octets], i \in Octets, j \in Octets : m = [s |-> s, i |-> i, j |-> j]
  BY DEF Ready
<1>2. (s[i] + s[j]) % 256 \in Octets
  BY OctetsSum
<1>3. Drawn(m) = s[(s[i] + s[j]) % 256]
  BY <1>1 DEF Drawn
<1>4. QED  BY <1>2, <1>3

LEMMA TurnsReady ==
  ASSUME NEW m, Ready(m), NEW k \in Nat, NEW f, Turning(f, m, k)
  PROVE  \A n \in 0 .. k : Ready(f[n])
<1> DEFINE D == {n \in 0 .. k : ~ Ready(f[n])}
<1> SUFFICES ASSUME D # {}  PROVE FALSE
  OBVIOUS
<1>1. PICK n \in D : \A y \in D : n <= y
  <2>1. D \subseteq Nat
    OBVIOUS
  <2> HIDE DEF D
  <2>2. QED  BY <2>1, LeastMember
<1>2. n \in 0 .. k /\ ~ Ready(f[n])
  BY <1>1
<1>3. f[n] = IF n = 0 THEN m ELSE Stirred(f[n - 1])
  <2> HIDE DEF D
  <2>1. PICK p \in 0 .. k : p = n
    BY <1>2
  <2>2. f[p] = IF p = 0 THEN m ELSE Stirred(f[p - 1])
    BY TurnedAt
  <2>3. QED  BY <2>1, <2>2
<1>4. n # 0
  BY <1>2, <1>3
<1>5. n - 1 \in 0 .. k /\ ~ (n <= n - 1)
  BY <1>2, <1>4
<1>6. Ready(f[n - 1])
  BY <1>1, <1>5
<1>7. QED  BY <1>2, <1>3, <1>4, <1>6, StirredReady

\* What RC4 combines the bytes of a text of k bytes with.
Turns(k) == CHOOSE f : f = [n \in 0 .. k |-> IF n = 0 THEN [s |-> mixed.s, i |-> 0, j |-> 0] ELSE Stirred(f[n - 1])]

LEMMA Rc4Is ==
  ASSUME NEW t, Len(t) \in Nat
  PROVE  /\ Rc4(t) = [n \in 1 .. Len(t) |-> BitXor(t[n], Drawn(Turns(Len(t))[n]))]
         /\ Turning(Turns(Len(t)), [s |-> mixed.s, i |-> 0, j |-> 0], Len(t))
<1>1. Rc4(t) = [n \in 1 .. Len(t) |-> BitXor(t[n], Drawn(Turns(Len(t))[n]))]
  BY DEF Rc4, Turns
<1>2. \E f : f = [n \in 0 .. Len(t) |-> IF n = 0 THEN [s |-> mixed.s, i |-> 0, j |-> 0] ELSE Stirred(f[n - 1])]
  BY TurningIs DEF Turning
<1>3. Turning(Turns(Len(t)), [s |-> mixed.s, i |-> 0, j |-> 0], Len(t))
  BY <1>2 DEF Turning, Turns
<1>4. QED  BY <1>1, <1>3

\* RC4 of a text is a text, and RC4 of that is the text again.
LEMMA Rc4Undoes ==
  ASSUME NEW t \in Seq(Octets), t # <<>> => Ready([s |-> mixed.s, i |-> 0, j |-> 0])
  PROVE  Rc4(t) \in Seq(Octets) /\ Rc4(Rc4(t)) = t
<1>1. PICK k \in Nat : k = Len(t)
  OBVIOUS
<1>2. PICK f : f = Turns(k)
  OBVIOUS
<1>3. ASSUME NEW n \in 1 .. k  PROVE Drawn(f[n]) \in Octets
  <2>1. t # <<>>
    BY <1>1
  <2>2. Turning(f, [s |-> mixed.s, i |-> 0, j |-> 0], k)
    BY <1>1, <1>2, Rc4Is
  <2>3. Ready(f[n])
    BY <2>1, <2>2, TurnsReady
  <2>4. QED  BY <2>3, DrawnOctet
<1>4. PICK u : u = Rc4(t) /\ u = [n \in 1 .. k |-> BitXor(t[n], Drawn(f[n]))]
  BY <1>1, <1>2, Rc4Is
<1>5. \A n \in 1 .. k : t[n] \in Octets
  BY <1>1
<1>6. ASSUME NEW a \in Octets, NEW b \in Octets  PROVE BitXor(a, b) \in Octets /\ BitXor(BitXor(a, b), b) = a
  BY ConversionAssumption DEF Octets
<1>7. \A n \in 1 .. k : BitXor(t[n], Drawn(f[n])) \in Octets
  BY <1>3, <1>5, <1>6
<1>8. u \in Seq(Octets) /\ Len(u) = k
  BY <1>4, <1>7, SequenceIs
<1>9. Rc4(u) = [n \in 1 .. k |-> BitXor(u[n], Drawn(f[n]))]
  BY <1>2, <1>8, Rc4Is
<1>10. \A n \in 1 .. k : BitXor(u[n], Drawn(f[n])) = t[n]
  BY <1>3, <1>4, <1>5, <1>6
<1>11. PICK v : v = Rc4(u) /\ v = [n \in 1 .. k |-> t[n]]
  BY <1>9, <1>10
<1>12. v \in Seq(Octets) /\ Len(v) = k
  BY <1>11, <1>5, SequenceIs
<1>13. v = t
  <2>1. \A n \in 1 .. k : v[n] = t[n]
    BY <1>11
  <2>2. QED  BY <2>1, <1>1, <1>12, SequencesSame
<1>14. QED  BY <1>4, <1>8, <1>11, <1>13

LEMMA DigitBack ==
  ASSUME NEW x \in 0 .. 15
  PROVE  HexValue(HexDigit(x)) = x
<1>1. CASE x > 9
  BY <1>1 DEF HexValue, HexDigit
<1>2. CASE ~ (x > 9)
  BY <1>2 DEF HexValue, HexDigit
<1>3. QED  BY <1>1, <1>2

LEMMA HexBack ==
  ASSUME NEW t \in Seq(Octets)
  PROVE  HexToChar(CharToHex(t)) = t
<1>1. PICK k \in Nat : k = Len(t)
  OBVIOUS
<1> DEFINE H(i) == HexDigit(IF i % 2 = 1 THEN t[(i + 1) \div 2] \div 16 ELSE t[i \div 2] % 16)
<1>2. PICK h : h = CharToHex(t) /\ h = [i \in 1 .. 2 * k |-> H(i)]
  BY <1>1 DEF CharToHex
<1>3. Len(h) = 2 * k
  <2> HIDE DEF H
  <2>1. 2 * k \in Nat
    OBVIOUS
  <2>2. PICK l \in Nat : l = 2 * k
    BY <2>1
  <2>3. h = [i \in 1 .. l |-> H(i)]
    BY <1>2, <2>2
  <2>4. Len(h) = l
    BY <2>3
  <2>5. QED  BY <2>2, <2>4
<1>4. ASSUME NEW i \in 1 .. k
      PROVE  HexValue(h[2 * i - 1]) * 16 + HexValue(h[2 * i]) = t[i]
  <2>1. /\ 2 * i - 1 \in 1 .. 2 * k /\ 2 * i \in 1 .. 2 * k
        /\ (2 * i - 1) % 2 = 1 /\ (2 * i) % 2 = 0 /\ (2 * i - 1 + 1) \div 2 = i /\ (2 * i) \div 2 = i
    OBVIOUS
  <2>2. PICK x : x = t[i]
    OBVIOUS
  <2>3. H(2 * i - 1) = HexDigit(x \div 16) /\ H(2 * i) = HexDigit(x % 16)
    BY <2>1, <2>2
  <2> HIDE DEF H
  <2>4. h[2 * i - 1] = HexDigit(x \div 16) /\ h[2 * i] = HexDigit(x % 16)
    BY <1>2, <2>1, <2>3
  <2>5. x \in Octets
    BY <1>1, <2>2
  <2>6. x \in 0 .. 255
    BY <2>5 DEF Octets
  <2>7. x \div 16 \in 0 .. 15 /\ x % 16 \in 0 .. 15 /\ (x \div 16) * 16 + (x % 16) = x
    BY <2>6
  <2>8. HexValue(HexDigit(x \div 16)) = x \div 16 /\ HexValue(HexDigit(x % 16)) = x % 16
    BY <2>7, DigitBack
  <2>9. QED  BY <2>2, <2>4, <2>7, <2>8
<1>5. (2 * k) \div 2 = k
  OBVIOUS
<1>6. HexToChar(h) = [i \in 1 .. k |-> HexValue(h[2 * i - 1]) * 16 + HexValue(h[2 * i])]
  BY <1>3, <1>5 DEF HexToChar
<1>7. PICK v : v = HexToChar(h) /\ v = [i \in 1 .. k |-> t[i]]
  BY <1>4, <1>6
<1>8. \A i \in 1 .. k : t[i] \in Octets
  BY <1>1
<1>9. v \in Seq(Octets) /\ Len(v) = k
  BY <1>7, <1>8, SequenceIs
<1>10. \A i \in 1 .. k : v[i] = t[i]
  BY <1>7
<1>11. v = t
  BY <1>1, <1>9, <1>10, SequencesSame
<1>12. QED  BY <1>2, <1>7, <1>11

-----------------------------------------------------------------------------
(* The invariant of the conversions, and the theorem.                        *)

\* Every octet is in S.
Permuted(s) == s \in [Octets -> Octets] /\ \A y \in Octets : \E k \in Octets : s[k] = y

LEMMA ExchangedPermuted ==
  ASSUME NEW s, Permuted(s), NEW i \in Octets, NEW j \in Octets
  PROVE  Permuted(Exchanged(s, i, j))
<1>1. s \in [Octets -> Octets] /\ \A y \in Octets : \E k \in Octets : s[k] = y
  BY DEF Permuted
<1>2. PICK u : u = Exchanged(s, i, j)
  OBVIOUS
<1>3. u \in [Octets -> Octets] /\ u[j] = s[i] /\ (i # j => u[i] = s[j])
      /\ \A k \in Octets : k # i /\ k # j => u[k] = s[k]
  BY <1>1, <1>2 DEF Exchanged
<1>4. ASSUME NEW y \in Octets  PROVE \E k \in Octets : u[k] = y
  <2>1. PICK k \in Octets : s[k] = y
    BY <1>1
  <2>2. CASE k = i
    BY <1>3, <2>1, <2>2
  <2>3. CASE k = j /\ i # j
    BY <1>3, <2>1, <2>3
  <2>4. CASE k # i /\ k # j
    BY <1>3, <2>1, <2>4
  <2>5. QED  BY <2>2, <2>3, <2>4
<1>5. QED  BY <1>2, <1>3, <1>4 DEF Permuted

\* S is empty and there is no text yet, or it is a permutation.
CodecsInv ==
  /\ plain \in Seq(Octets) /\ secret \in Keys /\ front \in Fronts
  /\ \E s, i, j : /\ mixed = [s |-> s, i |-> i, j |-> j]
                  /\ i \in 0 .. 256 /\ j \in Octets
                  /\ \/ s = <<>> /\ i = 0 /\ plain = <<>>
                     \/ Permuted(s)

LEMMA EmptyIsNot ==
  ASSUME NEW s, Permuted(s)
  PROVE  s # <<>>
<1>1. 0 \in DOMAIN s
  <2>1. DOMAIN s = Octets
    BY DEF Permuted
  <2>2. QED  BY <2>1 DEF Octets
<1>2. 0 \notin DOMAIN <<>>
  OBVIOUS
<1>3. QED  BY <1>1, <1>2

LEMMA ItemsOf ==
  ASSUME NEW T, NEW w \in Seq(T)
  PROVE  \A x \in 1 .. Len(w) : w[x] \in T
  OBVIOUS

LEMMA KeyByteOctet ==
  ASSUME secret \in Keys, NEW i \in Nat
  PROVE  KeyByte(i) \in Octets
<1>1. secret # <<>> /\ secret \in Seq(1 .. 127)
  BY ConversionAssumption
<1>2. PICK n \in Nat \ {0} : n = Len(secret)
  BY <1>1
<1>3. i % n \in 0 .. n - 1
  BY <1>2
<1>4. (i % n) + 1 \in 1 .. n
  BY <1>2, <1>3
<1>5. KeyByte(i) \in 1 .. 127
  <2>1. PICK w : w = secret /\ w \in Seq(1 .. 127) /\ Len(w) = n
    BY <1>1, <1>2
  <2>2. PICK p : p = (i % n) + 1 /\ p \in 1 .. n
    BY <1>4
  <2>3. w[p] \in 1 .. 127
    <3>1. \A x \in 1 .. Len(w) : w[x] \in 1 .. 127
      BY <2>1, ItemsOf
    <3>2. p \in 1 .. Len(w)
      BY <2>1, <2>2
    <3>3. QED  BY <3>1, <3>2
  <2>4. KeyByte(i) = w[p]
    BY <2>1, <2>2 DEF KeyByte
  <2>5. QED  BY <2>3, <2>4
<1>6. \A x \in 1 .. 127 : x \in 0 .. 255
  OBVIOUS
<1>7. QED  BY <1>5, <1>6 DEF Octets

LEMMA CodecsStart == ConversionInit => CodecsInv
<1> SUFFICES ASSUME ConversionInit  PROVE CodecsInv
  OBVIOUS
<1>1. plain = <<>> /\ secret \in Keys /\ front \in Fronts /\ mixed = [s |-> <<>>, i |-> 0, j |-> 0]
  BY DEF ConversionInit
<1>2. 0 \in 0 .. 256 /\ 0 \in Octets /\ <<>> \in Seq(Octets)
  BY DEF Octets
<1>3. QED  BY <1>1, <1>2 DEF CodecsInv

LEMMA CodecsStep == CodecsInv /\ [ConversionNext]_conversionVars => CodecsInv'
<1> SUFFICES ASSUME CodecsInv, [ConversionNext]_conversionVars  PROVE CodecsInv'
  OBVIOUS
<1>1. plain \in Seq(Octets) /\ secret \in Keys /\ front \in Fronts
  BY DEF CodecsInv
<1>2. PICK s, i, j : /\ mixed = [s |-> s, i |-> i, j |-> j]
                     /\ i \in 0 .. 256 /\ j \in Octets
                     /\ \/ s = <<>> /\ i = 0 /\ plain = <<>>
                        \/ Permuted(s)
  BY DEF CodecsInv
<1>3. CASE Fills
  <2>1. PICK u : u = [k \in 0 .. 255 |-> k] /\ mixed' = [mixed EXCEPT !.s = u] /\ plain' = plain /\ front' = front /\ secret' = secret
    BY <1>3 DEF Fills
  <2>2. mixed' = [s |-> u, i |-> i, j |-> j]
    BY <1>2, <2>1
  <2>3. Permuted(u)
    <3>1. u \in [Octets -> Octets] /\ \A y \in Octets : u[y] = y
      BY <2>1 DEF Octets
    <3>2. QED  BY <3>1 DEF Permuted
  <2>4. plain' \in Seq(Octets) /\ secret' \in Keys /\ front' \in Fronts
    BY <1>1, <2>1
  <2>5. QED  BY <1>2, <2>2, <2>3, <2>4 DEF CodecsInv
<1>4. CASE Mixes
  <2>1. PICK j2 : /\ j2 = (mixed.j + mixed.s[mixed.i] + KeyByte(mixed.i)) % 256
                  /\ mixed' = [s |-> Exchanged(mixed.s, mixed.i, j2), i |-> mixed.i + 1, j |-> j2]
                  /\ mixed.s # <<>> /\ mixed.i < 256 /\ plain' = plain /\ front' = front /\ secret' = secret
    BY <1>4 DEF Mixes
  <2>2. mixed.s = s /\ mixed.i = i /\ mixed.j = j
    BY <1>2
  <2>3. Permuted(s)
    BY <1>2, <2>1, <2>2
  <2>4. i \in Octets /\ i \in Nat /\ i + 1 \in 0 .. 256
    BY <1>2, <2>1, <2>2 DEF Octets
  <2>5. j2 \in Octets
    <3>1. s[i] \in Octets
      BY <2>3, <2>4 DEF Permuted
    <3>2. KeyByte(i) \in Octets
      BY <1>1, <2>4, KeyByteOctet
    <3>3. j \in Nat /\ s[i] \in Nat /\ KeyByte(i) \in Nat
      BY <1>2, <3>1, <3>2, OctetsNat
    <3>4. j + s[i] + KeyByte(i) \in Nat
      BY <3>3
    <3>5. (j + s[i] + KeyByte(i)) % 256 \in Octets
      BY <3>4, Mod256
    <3>6. QED  BY <2>1, <2>2, <3>5
  <2>6. Permuted(Exchanged(s, i, j2))
    BY <2>3, <2>4, <2>5, ExchangedPermuted
  <2>7. mixed' = [s |-> Exchanged(s, i, j2), i |-> i + 1, j |-> j2]
    BY <2>1, <2>2
  <2>8. plain' \in Seq(Octets) /\ secret' \in Keys /\ front' \in Fronts
    BY <1>1, <2>1
  <2>9. QED  BY <2>4, <2>5, <2>6, <2>7, <2>8 DEF CodecsInv
<1>5. CASE Grows
  <2>1. PICK b \in Byte : plain' = Append(plain, b) /\ front' \in Fronts /\ secret' = secret /\ mixed' = mixed /\ mixed.i = 256
    BY <1>5 DEF Grows
  <2>2. b \in Octets
    BY ConversionAssumption DEF Octets
  <2>3. plain' \in Seq(Octets) /\ secret' \in Keys /\ front' \in Fronts
    BY <1>1, <2>1, <2>2
  <2>4. i = 256
    BY <1>2, <2>1
  <2>5. Permuted(s)
    BY <1>2, <2>4
  <2>6. mixed' = [s |-> s, i |-> i, j |-> j]
    BY <1>2, <2>1
  <2>7. QED  BY <1>2, <2>3, <2>5, <2>6 DEF CodecsInv
<1>6. CASE UNCHANGED conversionVars
  BY <1>1, <1>2, <1>6 DEF conversionVars, CodecsInv
<1>7. QED  BY <1>3, <1>4, <1>5, <1>6 DEF ConversionNext

LEMMA CodecsHold == CodecsInv => CodecsInvert
<1> SUFFICES ASSUME CodecsInv  PROVE CodecsInvert
  OBVIOUS
<1>1. plain \in Seq(Octets) /\ front \in Fronts
  BY DEF CodecsInv
<1>2. PICK s, i, j : /\ mixed = [s |-> s, i |-> i, j |-> j]
                     /\ i \in 0 .. 256 /\ j \in Octets
                     /\ \/ s = <<>> /\ i = 0 /\ plain = <<>>
                        \/ Permuted(s)
  BY DEF CodecsInv
<1>3. mixed.s # <<>> => {mixed.s[k] : k \in 0 .. 255} = 0 .. 255
  <2>1. SUFFICES ASSUME mixed.s # <<>>  PROVE {mixed.s[k] : k \in 0 .. 255} = 0 .. 255
    OBVIOUS
  <2>2. mixed.s = s /\ Permuted(s)
    BY <1>2, <2>1
  <2>3. {s[k] : k \in Octets} = Octets
    BY <2>2 DEF Permuted
  <2>4. QED  BY <2>2, <2>3 DEF Octets
<1>4. plain # <<>> => Ready([s |-> mixed.s, i |-> 0, j |-> 0])
  <2>1. SUFFICES ASSUME plain # <<>>  PROVE Ready([s |-> mixed.s, i |-> 0, j |-> 0])
    OBVIOUS
  <2>2. s \in [Octets -> Octets]
    BY <1>2, <2>1 DEF Permuted
  <2>3. [s |-> mixed.s, i |-> 0, j |-> 0] = [s |-> s, i |-> 0, j |-> 0]
    BY <1>2
  <2>4. 0 \in Octets
    BY DEF Octets
  <2>5. QED  BY <2>2, <2>3, <2>4 DEF Ready
<1>5. Rc4Decode(Rc4Encode(plain)) = plain
  <2>1. Rc4(plain) \in Seq(Octets) /\ Rc4(Rc4(plain)) = plain
    BY <1>1, <1>4, Rc4Undoes
  <2>2. HexToChar(CharToHex(Rc4(plain))) = Rc4(plain)
    BY <2>1, HexBack
  <2>3. QED  BY <2>1, <2>2 DEF Rc4Decode, Rc4Encode
<1>6. StringEncoded(plain)
  BY <1>1, Base64Inverts
<1>7. QED  BY <1>1, <1>3, <1>5, <1>6, Base64Inverts DEF CodecsInvert, StringEncoded

\* For every text, every key, every alphabet of bytes and whatever lies in
\* front of basis64 (conv_base64.cpp, conv_rc4.cpp): the encoder of bytes makes
\* base64 and the decoder undoes it; the encoder of strings makes the same
\* digits but for those made with a shifted byte above 127, and a text without
\* them is decoded or refused; S stays a permutation, and RC4 undoes itself in
\* hexadecimal.
THEOREM ConversionsInvert == ConversionInit /\ [][ConversionNext]_conversionVars => []CodecsInvert
<1>1. QED  BY CodecsStart, CodecsStep, CodecsHold, PTL
=============================================================================
