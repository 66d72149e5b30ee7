----------------------------- MODULE Resources -----------------------------
(***************************************************************************)
(* The external files of a configuration ('@path' in a body, a dataset, a  *)
(* schema ...) and /resources of the management API, which lists, writes   *)
(* and deletes them.  ConfigRootBuilder makes a ConfigExternalFilePath per *)
(* reference; the objects stand in one list of the class and each keeps    *)
(* its position, by which destroy() takes it out again when the service it *)
(* belongs to is replaced.  A service is replaced by building the new one  *)
(* first; either build may raise half-way.                                 *)
(*                                                                         *)
(* Handlers run to their end on the event loop: the steps of a post cannot *)
(* be interrupted, and are steps here only because they are loops there.   *)
(***************************************************************************)
EXTENDS ConfigBuilder, FiniteSets

CONSTANTS
  Paths,       \* what configurations refer to: sequences of names
  Hidden,      \* those with a template in them, or written as '@/...'
  Services, HttpServices, \* positions of services, and of those of HTTP
  Globals,     \* stands for the global headers
  Configs,     \* configurations, all of the same number of services
  Disk,        \* files and directories that may lie there at the start
  MaxParts,    \* bound on the parts of an upload
  MaxPosts, MaxRequests, MaxEvents   \* bounds

Owners == Services \cup {Globals}
References == [owner : Owners, path : Paths \cup {Refused}]
\* Of everything, and of one service.
AllOf(config) == RootFiles(config, Globals)
PartOf(config, s) == OwnedBy(s, ServiceFiles(config.services[s]))

\* Of files and directories below source_dir, <<>> here.
Below(p, q) == Len(q) < Len(p) /\ SubSeq(p, 1, Len(q)) = q
Parents(p) == {SubSeq(p, 1, n) : n \in 1..(Len(p) - 1)}
\* What a file system has: above each of them are directories.
Tree(files_, dirs_) ==
  files_ \cap dirs_ = {} /\ \A p \in files_ \cup dirs_ : Parents(p) \subseteq dirs_

ASSUME ResourcesAssumption ==
  /\ HttpServices \subseteq Services /\ Globals \notin Services /\ Refused \notin Paths
  /\ Hidden \subseteq Paths
  /\ Paths \subseteq Seq(STRING) \ {<<>>}
  /\ \A config \in Configs :
       /\ AllOf(config) \in Seq(References) /\ config.analysable \in BOOLEAN
       /\ \A s \in Services : PartOf(config, s) \in Seq([owner : {s}, path : Paths \cup {Refused}])
  /\ Disk \subseteq [files : SUBSET Seq(STRING), dirs : SUBSET Seq(STRING)]
  /\ \A d \in Disk : Tree(d.files, d.dirs)
  /\ MaxParts \in Nat /\ MaxPosts \in Nat /\ MaxRequests \in Nat /\ MaxEvents \in Nat

VARIABLES
  files,     \* ConfigExternalFilePath.files: objects, numbered as they are made
  made,      \* how many were made
  pathOf,    \* their path
  index,     \* their _index
  root,      \* external_file_paths of config_root's services (and the globals')
  step,      \* idle, build or destroy
  job,       \* the post under way: of everything or of one service, what it
             \* has still to build, whether its analysis succeeds
  fresh,     \* external_file_paths of the services being built
  dying,     \* the replaced service's objects still to be destroyed
  disk, dirs,        \* files and directories below source_dir
  answer,            \* the last answer of GET /resources
  left, broken,      \* objects of a refused service; a refused configuration
  posts, requests    \* counters, for the bounds

registry == <<files, made, pathOf, index>>
posting == <<step, job, fresh, dying>>
tree == <<disk, dirs>>
vars == <<registry, root, posting, tree, answer, left, broken, posts, requests>>

No == [o \in Owners |-> <<>>]
NoJob == [whole |-> FALSE, owner |-> Globals, todo |-> <<>>, analysable |-> TRUE]
More == posts + requests < MaxEvents

-----------------------------------------------------------------------------
(***************************************************************************)
(* The list of the class.                                                  *)
(***************************************************************************)
\* ConfigExternalFilePath.__init__: the new object is put at the end.
Make(path) ==
  /\ made' = made + 1
  /\ files' = Append(files, made + 1)
  /\ pathOf' = Append(pathOf, path)
  /\ index' = Append(index, Len(files) + 1)

\* Mutated: only those after the hole are numbered, and one too low.
RenumberedLow(list) ==
  [o \in DOMAIN index |->
     IF \E i \in DOMAIN list : list[i] = o THEN (CHOOSE i \in DOMAIN list : list[i] = o) - 1
     ELSE index[o]]
\* destroy: pop at _index, then number all that are left.
Renumbered(list) ==
  [o \in DOMAIN index |->
     IF \E i \in DOMAIN list : list[i] = o THEN CHOOSE i \in DOMAIN list : list[i] = o
     ELSE index[o]]
Pop(o) ==
  /\ files' = RemoveAt(files, index[o])
  /\ index' = Renumbered(files')
  /\ UNCHANGED <<made, pathOf>>

PathsIn(objects) == {pathOf[o] : o \in objects}
ListedPaths == PathsIn(Range(files))
\* ManagementResourcesHandler.initialize
Listed == ListedPaths \ Hidden

-----------------------------------------------------------------------------
(***************************************************************************)
(* POST /config and POST /<root>/config, as far as the files go.           *)
(***************************************************************************)
\* clear_lists, then everything anew.
PostConfig(config) ==
  /\ step = "idle" /\ posts < MaxPosts /\ More
  /\ posts' = posts + 1
  /\ step' = "build" /\ fresh' = No /\ dying' = <<>>
  /\ job' = [whole |-> TRUE, owner |-> Globals, todo |-> AllOf(config),
             analysable |-> config.analysable]
  /\ files' = <<>> /\ UNCHANGED <<made, pathOf, index>>
  /\ UNCHANGED <<root, tree, answer, left, broken, requests>>

\* A whole post that was refused while it built has numbered fewer services;
\* config.py:44 refuses the post of one of the others at once, with at most
\* the object of an oas made: broken states have here more steps than the code.
PostService(s, config) ==
  /\ step = "idle" /\ posts < MaxPosts /\ More
  /\ posts' = posts + 1
  /\ step' = "build" /\ fresh' = No /\ dying' = <<>>
  /\ job' = [whole |-> FALSE, owner |-> s, analysable |-> TRUE,
             todo |-> PartOf(config, s)]
  /\ UNCHANGED <<registry, root, tree, answer, left, broken, requests>>

Build ==
  /\ step = "build" /\ job.todo # <<>>
  /\ LET r == Head(job.todo) IN
       /\ r.path # Refused
       /\ Make(r.path)
       /\ fresh' = [fresh EXCEPT ![r.owner] = Append(@, made + 1)]
  /\ job' = [job EXCEPT !.todo = Tail(@)]
  /\ UNCHANGED <<root, step, dying, tree, answer, left, broken, posts, requests>>

Ended == step' = "idle" /\ job' = NoJob /\ fresh' = No /\ dying' = <<>>
Objects(lists) == UNION {Range(lists[o]) : o \in Owners}

\* CommaInTagIsForbidden: answered 500; what was made stays in the list.
BuildRaises ==
  /\ step = "build" /\ job.todo # <<>> /\ Head(job.todo).path = Refused
  /\ IF job.whole THEN broken' = TRUE /\ UNCHANGED left
     ELSE left' = left \cup Objects(fresh) /\ UNCHANGED broken
  /\ Ended
  /\ UNCHANGED <<registry, root, tree, answer, posts, requests>>

\* analyze, and the assignment of config_root.
Analyze ==
  /\ step = "build" /\ job.todo = <<>> /\ job.whole
  /\ IF job.analysable THEN root' = fresh /\ broken' = FALSE /\ left' = {}
     ELSE broken' = TRUE /\ UNCHANGED <<root, left>>
  /\ Ended
  /\ UNCHANGED <<registry, tree, answer, posts, requests>>

\* Mutated: the old service is not destroyed.
BuiltOnly ==
  /\ step = "build" /\ job.todo = <<>> /\ ~job.whole
  /\ step' = "destroy" /\ dying' = <<>>
  /\ UNCHANGED <<registry, root, job, fresh, tree, answer, left, broken, posts, requests>>
Built ==
  /\ step = "build" /\ job.todo = <<>> /\ ~job.whole
  /\ step' = "destroy" /\ dying' = root[job.owner]
  /\ UNCHANGED <<registry, root, job, fresh, tree, answer, left, broken, posts, requests>>

Destroy ==
  /\ step = "destroy" /\ dying # <<>> /\ index[Head(dying)] \in DOMAIN files
  /\ Pop(Head(dying)) /\ dying' = Tail(dying)
  /\ UNCHANGED <<root, step, job, fresh, tree, answer, left, broken, posts, requests>>

\* The object is none of the list's and its position is past the end.
DestroyRaises ==
  /\ step = "destroy" /\ dying # <<>> /\ index[Head(dying)] \notin DOMAIN files
  /\ Ended
  /\ UNCHANGED <<registry, root, tree, answer, left, broken, posts, requests>>

\* The analysis of the new service that follows may still raise: the objects are
\* those of config_root all the same.
Destroyed ==
  /\ step = "destroy" /\ dying = <<>>
  /\ root' = [root EXCEPT ![job.owner] = fresh[job.owner]]
  /\ Ended
  /\ UNCHANGED <<registry, tree, answer, left, broken, posts, requests>>

-----------------------------------------------------------------------------
(***************************************************************************)
(* /resources.  A path is refused unless the list has it.                  *)
(***************************************************************************)
Inside(d, files_, dirs_) == {p \in files_ \cup dirs_ : Below(p, d)}

Request ==
  /\ step = "idle" /\ requests < MaxRequests /\ More
  /\ requests' = requests + 1
  /\ UNCHANGED <<registry, root, posting, left, broken, posts>>

Get == Request /\ answer' = Listed /\ UNCHANGED tree

\* check_path_is_not_directory, check_if_path_defined_in_configuration_file;
\* makedirs and open raise where a parent is a file.
Accepted(p, dirs_) == p \notin dirs_ /\ p \in Listed
Writable(p, files_) == Parents(p) \cap files_ = {}

\* One part after the other, up to the first that is refused.
Write(acc, p) ==
  IF acc.over \/ ~Accepted(p, acc.dirs) \/ ~Writable(p, acc.disk)
  THEN [acc EXCEPT !.over = TRUE]
  ELSE [disk |-> acc.disk \cup {p}, dirs |-> acc.dirs \cup Parents(p), over |-> FALSE]

\* A form with one file is a single part, an upload has any number of them;
\* without a file or its path the request is refused.
Post(parts) ==
  /\ Request
  /\ LET w == FoldLeft(Write, [disk |-> disk, dirs |-> dirs, over |-> FALSE], parts)
     IN  disk' = w.disk /\ dirs' = w.dirs
  /\ UNCHANGED answer

\* Mutated: all parents, whatever they hold.
EmptiedAll(p) == Parents(p)
\* The parents that an upward walk from p finds empty, one after the other.
Emptied(p) ==
  {d \in Parents(p) : Inside(d, disk \ {p}, dirs) \subseteq Parents(p)}

TakeAway(ds) ==
  /\ disk' = {q \in disk : q \notin ds /\ \A d \in ds : ~Below(q, d)}
  /\ dirs' = {q \in dirs : q \notin ds /\ \A d \in ds : ~Below(q, d)}

\* A directory goes with all it holds; its own parents stay.
Delete(p, keep) ==
  /\ p \in (disk \cup dirs) \cap Listed
  /\ Request
  /\ TakeAway({p} \cup IF p \in disk /\ ~keep THEN Emptied(p) ELSE {})
  /\ UNCHANGED answer

-----------------------------------------------------------------------------
\* The program starts with a configuration that is built without an error.
Init ==
  /\ files = <<>> /\ made = 0 /\ pathOf = <<>> /\ index = <<>>
  /\ root = No /\ fresh = No /\ dying = <<>> /\ step = "build"
  /\ \E config \in Configs :
       /\ config.analysable /\ \A r \in Range(AllOf(config)) : r.path # Refused
       /\ job = [whole |-> TRUE, owner |-> Globals, todo |-> AllOf(config),
                 analysable |-> TRUE]
  /\ \E d \in Disk : disk = d.files /\ dirs = d.dirs
  /\ answer = {} /\ left = {} /\ broken = FALSE /\ posts = 0 /\ requests = 0

Posting ==
  \/ \E config \in Configs : PostConfig(config) \/ \E s \in HttpServices : PostService(s, config)
  \/ Build \/ BuildRaises \/ Analyze \/ Built
  \/ Destroy \/ DestroyRaises \/ Destroyed
Requesting ==
  \/ Get
  \/ \E parts \in SeqOf(Paths, MaxParts) : Post(parts)
  \/ \E p \in Paths, keep \in BOOLEAN : Delete(p, keep)

Next == Posting \/ Requesting
Spec == Init /\ [][Next]_vars

-----------------------------------------------------------------------------
TypeOK ==
  /\ made \in Nat /\ files \in Seq(1..made)
  /\ pathOf \in Seq(Paths) /\ Len(pathOf) = made
  /\ index \in Seq(Nat) /\ Len(index) = made
  /\ root \in [Owners -> Seq(1..made)] /\ fresh \in [Owners -> Seq(1..made)]
  /\ dying \in Seq(1..made)
  /\ step \in {"idle", "build", "destroy"}
  /\ job \in [whole : BOOLEAN, owner : Owners, todo : Seq(References), analysable : BOOLEAN]
  /\ left \subseteq 1..made /\ broken \in BOOLEAN

\* Every object knows where it stands in the list, whatever was made and
\* destroyed, and whatever a refused configuration has left: destroy() never
\* takes out another one, unless the object itself is no longer in the list.
IndexIsPosition == \A i \in DOMAIN files : index[files[i]] = i

\* The list holds the objects of the services, those of a refused one, and
\* those of the post under way, unless a refused configuration broke it.
Expected ==
  CASE step = "idle" -> Objects(root) \cup left
    [] step = "build" -> (IF job.whole THEN {} ELSE Objects(root) \cup left) \cup Objects(fresh)
    [] step = "destroy" ->
         Objects([root EXCEPT ![job.owner] = dying]) \cup left \cup Objects(fresh)
FilesRight ==
  ~broken \/ (step = "build" /\ job.whole) => Range(files) = Expected

\* No object belongs to two services, or twice to one.
Single(lists) ==
  \A o, q \in Owners : \A i \in DOMAIN lists[o], j \in DOMAIN lists[q] :
    lists[o][i] = lists[q][j] => o = q /\ i = j
Apart ==
  /\ Single(root) /\ Single(fresh)
  /\ \A o \in Objects(root) : o \notin Objects(fresh) \cup left
  /\ \A o \in Objects(fresh) : o \notin left
\* What a post of one service may hold.
JobFits ==
  /\ step = "destroy" => ~job.whole
  /\ step # "idle" /\ ~job.whole =>
       /\ \A i \in DOMAIN job.todo : job.todo[i].owner = job.owner
       /\ \A o \in Owners \ {job.owner} : fresh[o] = <<>>
  /\ \A i \in DOMAIN dying : dying[i] \in Range(root[job.owner])
  /\ \A i, j \in DOMAIN dying : dying[i] = dying[j] => i = j
IInv == TypeOK /\ IndexIsPosition /\ FilesRight /\ Apart /\ JobFits

\* GET /resources lists what the configuration in force refers to.
Abs == INSTANCE Listing WITH
         Services <- Owners,
         refs <- [o \in Owners |-> PathsIn(Range(root[o]))],
         left <- PathsIn(left), sound <- ~broken
AbsSpec == Abs!Spec

\* Neither a post nor a delete, however it ends, creates or removes a file that
\* the configuration does not refer to, itself or through a directory.
OnlyReferencedChange ==
  [][\A q \in (disk \ disk') \cup (disk' \ disk) :
       q \in Listed \/ \E d \in Listed : Below(q, d)]_vars

=============================================================================
