------------------------------ MODULE Delivery ------------------------------
(***************************************************************************)
(* How a container gets its environment: the Secrets of the API            *)
(* (api::secret), the env sources of a container (container_env), the run  *)
(* options (run_options), the files a worker starts from (cloud_init) and  *)
(* their delivery over SSH (reconcile::job), and the script on the worker  *)
(* that waits for them (bootstrap/cloud-init-template.sh).                 *)
(*                                                                         *)
(* One job on one worker.  Every Secret is read with a query of its own,   *)
(* every file is written with an SSH command of its own, and the worker    *)
(* reads the files one after the other, so all of them interleave with     *)
(* each other and with changes to the Secrets.                             *)
(*                                                                         *)
(* A value is one word: "pem" stands for one with line breaks, "bytes" for *)
(* one that is not text, "huge" for one that no podman secret may have,    *)
(* "nul" for one with a NUL, "$(A)" for a literal that refers to A.        *)
(***************************************************************************)
EXTENDS Integers, Sequences, SequencesExt

CONSTANTS
    Containers,  \* the containers[0], with the securityContexts, to look at
    InitSecrets, \* the contents of table secrets to start from, per container
    Patches,     \* the JSON patches clients send
    None,
    MaxChanges,  \* bound on changes to Secrets
    MaxAttempts  \* bound on attempts to resolve the environment

VARIABLES
    container,   \* the job's container
    secrets,     \* table secrets: rows in rowid order; no constraint keeps names apart
    patching,    \* a PATCH between its SELECT and its UPDATE
    job,         \* the job: status, the Secrets still to read and those read, the
                 \* config being delivered and the next file
    files,       \* /run/kube-shim on the worker
    worker,      \* the script: where it is, what it has read
    changes,
    attempts,
    rewritten    \* history: a file was written again after "ready"

vars == <<container, secrets, patching, job, files, worker, changes, attempts, rewritten>>

-----------------------------------------------------------------------------
(***************************************************************************)
(* container_env: which environment a container asks for.                  *)
(***************************************************************************)

\* The empty function: no variables, no files, no rows.
Nothing == [x \in {} |-> None]

SupportedSources == {"value", "secretKeyRef", "fieldRef"}

\* is_valid_env_name: printable ASCII other than '='.
ValidName(name) == name \notin {"", "A=B"}

validate_env_entry(e) == ValidName(e.name) /\ e.from \in SupportedSources
validate_env_from_source(source) == source.from = "secretRef"

\* Sources this project cannot provide are refused at admission.
validate(c) ==
    /\ \A i \in DOMAIN c.env : validate_env_entry(c.env[i])
    /\ \A i \in DOMAIN c.envFrom : validate_env_from_source(c.envFrom[i])

\* In the order of their first mention, envFrom first.
referenced_secret_names(c) ==
    LET named == SelectSeq(c.env, LAMBDA e : e.from = "secretKeyRef")
        all == [i \in DOMAIN c.envFrom |-> c.envFrom[i].secret]
               \o [i \in DOMAIN named |-> named[i].secret]
    IN  FoldLeft(LAMBDA acc, n : IF n \in Range(acc) THEN acc ELSE Append(acc, n), << >>, all)

set_var(env, name, value) ==
    [n \in DOMAIN env \union {name} |-> IF n = name THEN value ELSE env[n]]

\* decode_secret_value: UTF-8 without NUL.
Decodable(value) == value # "bytes"

References == {"$(A)", "$(B)"}
Referred(text) == IF text = "$(A)" THEN "A" ELSE "B"

\* $(VAR) becomes VAR's value if it is defined by now and stays as it is if not.
expand(text, env) ==
    IF text \in References /\ Referred(text) \in DOMAIN env THEN env[Referred(text)] ELSE text

Ok(env) == [ok |-> TRUE, env |-> env]
Err == [ok |-> FALSE, env |-> Nothing]

\* envFrom: every key of the Secret becomes a variable (the prefix, a renaming, is
\* left out).
FromSecret(acc, source, read) ==
    IF ~acc.ok THEN acc
    ELSE IF source.secret \notin DOMAIN read
    THEN IF source.optional THEN acc ELSE Err
    ELSE LET data == read[source.secret]
         IN  IF \E k \in DOMAIN data : ~ValidName(k) \/ ~Decodable(data[k])
             THEN Err
             ELSE Ok([n \in DOMAIN acc.env \union DOMAIN data |->
                         IF n \in DOMAIN data THEN data[n] ELSE acc.env[n]])

\* Mutant of FromEntry: a Secret or key that is not there is passed over.
FromEntry_skips(acc, e, read) ==
    IF ~acc.ok THEN acc
    ELSE CASE e.from = "value" -> Ok(set_var(acc.env, e.name, expand(e.value, acc.env)))
           [] e.from = "fieldRef" -> Ok(set_var(acc.env, e.name, e.field))
           [] e.from = "secretKeyRef" ->
                IF e.secret \in DOMAIN read /\ e.key \in DOMAIN read[e.secret]
                THEN IF Decodable(read[e.secret][e.key])
                     THEN Ok(set_var(acc.env, e.name, read[e.secret][e.key]))
                     ELSE Err
                ELSE acc
           [] OTHER -> acc

\* One entry of env.  Only a literal is expanded.
FromEntry(acc, e, read) ==
    IF ~acc.ok THEN acc
    ELSE CASE e.from = "value" -> Ok(set_var(acc.env, e.name, expand(e.value, acc.env)))
           [] e.from = "fieldRef" -> Ok(set_var(acc.env, e.name, e.field))
           [] e.from = "secretKeyRef" ->
                IF e.secret \in DOMAIN read /\ e.key \in DOMAIN read[e.secret]
                THEN IF Decodable(read[e.secret][e.key])
                     THEN Ok(set_var(acc.env, e.name, read[e.secret][e.key]))
                     ELSE Err
                ELSE IF e.optional THEN acc ELSE Err
           [] OTHER -> acc

\* The sources of envFrom first, a later one over an earlier one.
FromSources(c, read) ==
    FoldLeft(LAMBDA acc, s : FromSecret(acc, s, read), Ok(Nothing), c.envFrom)

\* The environment after the first i entries of env, each over what was there.
AfterEntries(c, read) ==
    LET after[i \in 0 .. Len(c.env)] ==
            IF i = 0 THEN FromSources(c, read) ELSE FromEntry(after[i - 1], c.env[i], read)
    IN  after

\* The environment, or an error, given the Secrets found.  read maps the name of a
\* Secret to its data.
resolve_with_secrets(c, read) ==
    IF validate(c) THEN AfterEntries(c, read)[Len(c.env)] ELSE Err

-----------------------------------------------------------------------------
(***************************************************************************)
(* run_options and cloud_init.                                             *)
(***************************************************************************)

Or(a, b) == IF a # None THEN a ELSE b

\* At most one mount, of the ephemeral volume, at an absolute path.
scratch_mount(c) == c.mount # "invalid"

reject_unknown_fields(c) == ~c.unknownField

\* Mutant of parse: looks for uid 0 in the pod's securityContext only.
parse_pod(c) ==
    LET user == Or(c.sc.user, c.pod.user)
        group == Or(c.sc.group, c.pod.group)
        nonRoot == Or(c.sc.nonRoot, Or(c.pod.nonRoot, FALSE))
    IN  [ok |-> /\ group # None => user # None
                /\ nonRoot => c.pod.user # 0
                /\ scratch_mount(c),
         user |-> user, nonRoot |-> nonRoot]

\* The container's values win over the pod's.  --user cannot set a group alone, and
\* runAsNonRoot does not go with uid 0.
parse(c) ==
    LET user == Or(c.sc.user, c.pod.user)
        group == Or(c.sc.group, c.pod.group)
        nonRoot == Or(c.sc.nonRoot, Or(c.pod.nonRoot, FALSE))
    IN  [ok |-> /\ group # None => user # None
                /\ nonRoot => user # 0
                /\ scratch_mount(c),
         user |-> user, nonRoot |-> nonRoot]

\* run_options::validate: nothing that would be ignored, and everything parses.
validate_options(c) == reject_unknown_fields(c) /\ parse(c).ok

\* The script for the worker, which needs an image.
generate(c) == c.image /\ parse(c).ok

\* Values --env-file cannot hold, of several lines or very long, become podman secrets.
Multiline(value) == value \in {"pem", "huge"}

\* A line of the file does not begin with '#' or a space; a podman secret has no comma
\* in the name of its variable and a limited size.
Storable(name, value) ==
    /\ name # "#A"
    /\ Multiline(value) => name # "A,B" /\ value # "huge"

\* The four files, in the order of their upload; or an error, also for a command or
\* argument with a NUL.
container_config(c, env) ==
    [ok |-> /\ \A n \in DOMAIN env : Storable(n, env[n])
            /\ \A i \in DOMAIN c.command : expand(c.command[i], env) # "nul"
            /\ \A i \in DOMAIN c.args : expand(c.args[i], env) # "nul",
     env |-> [n \in {m \in DOMAIN env : ~Multiline(env[m])} |-> env[n]],
     secretEnv |-> [n \in {m \in DOMAIN env : Multiline(env[m])} |-> env[n]],
     command |-> [i \in DOMAIN c.command |-> expand(c.command[i], env)],
     args |-> [i \in DOMAIN c.args |-> expand(c.args[i], env)]]

-----------------------------------------------------------------------------
(***************************************************************************)
(* Types and initial state.                                                *)
(***************************************************************************)

Uploads == <<"env", "secretEnv", "command", "args", "ready">>
NoPatch == [secret |-> None, data |-> Nothing, patch |-> None]
NoConfig == [ok |-> FALSE]

Statuses == {"Submitted", "Refused", "VMPending", "VolumeAttaching", "ContainerConfiguring",
             "ContainerRunning", "Failed"}
WorkerSteps == {"off", "volume", "config", "args", "secretEnv", "user", "run", "running",
                "refused"}

TypeOK ==
    /\ container \in Containers
    /\ job.status \in Statuses
    /\ job.at \in {"idle", "reading", "uploading"} /\ job.next \in 1 .. 5
    /\ DOMAIN files \subseteq Range(Uploads)
    /\ worker.pc \in WorkerSteps
    /\ worker.scratch \in {"none", "volume", "boot disk"}
    /\ changes \in 0 .. MaxChanges /\ attempts \in 0 .. MaxAttempts
    /\ rewritten \in BOOLEAN

Init ==
    /\ container \in Containers
    /\ secrets \in InitSecrets[container]
    /\ patching = NoPatch
    /\ job = [status |-> "Submitted", at |-> "idle", todo |-> << >>, read |-> Nothing,
              config |-> NoConfig, next |-> 1, attached |-> FALSE]
    /\ files = Nothing
    /\ worker = [pc |-> "off", scratch |-> "none", got |-> Nothing]
    /\ changes = 0 /\ attempts = 0 /\ rewritten = FALSE

-----------------------------------------------------------------------------
(***************************************************************************)
(* The Secrets API.                                                        *)
(***************************************************************************)

Named(n) == {i \in DOMAIN secrets : secrets[i].name = n}
Exists(n) == Named(n) # {}

\* fetch_optional: the first of the rows.
Fetch(n) == secrets[CHOOSE i \in Named(n) : \A h \in Named(n) : i <= h].data

Change == changes < MaxChanges /\ changes' = changes + 1
OnlySecrets == UNCHANGED <<container, job, files, worker, attempts, rewritten>>

\* INSERT, without a look at the names in use.
create_secret(n, data) ==
    /\ Change
    /\ secrets' = Append(secrets, [name |-> n, data |-> data])
    /\ UNCHANGED patching
    /\ OnlySecrets

\* check_patched_secret and merge_string_data after the patch: what is left is a
\* change of data.  "replace" and "remove" fail on a key that is not there.
Applies(p, data) == p.op \in {"replace", "remove"} => p.key \in DOMAIN data
Patched(p, data) ==
    IF p.op = "remove" THEN [k \in DOMAIN data \ {p.key} |-> data[k]]
    ELSE set_var(data, p.key, p.value)

patch_reads(n, p) ==
    /\ Change
    /\ patching = NoPatch
    /\ Exists(n) /\ Applies(p, Fetch(n))
    /\ patching' = [secret |-> n, data |-> Fetch(n), patch |-> p]
    /\ UNCHANGED secrets
    /\ OnlySecrets

\* UPDATE ... WHERE name = ?: every row of that name, also one created since.
patch_writes ==
    /\ patching # NoPatch
    /\ secrets' = [i \in DOMAIN secrets |->
                      IF i \in Named(patching.secret)
                      THEN [secrets[i] EXCEPT !.data = Patched(patching.patch, patching.data)]
                      ELSE secrets[i]]
    /\ patching' = NoPatch
    /\ UNCHANGED changes
    /\ OnlySecrets

delete_secret(n) ==
    /\ Change
    /\ Exists(n)
    /\ secrets' = SelectSeq(secrets, LAMBDA row : row.name # n)
    /\ UNCHANGED patching
    /\ OnlySecrets

-----------------------------------------------------------------------------
(***************************************************************************)
(* The job: VMPending checks that the environment resolves and creates the *)
(* VM; VolumeAttaching; ContainerConfiguring resolves it again, delivers.  *)
(***************************************************************************)

OnlyJob == UNCHANGED <<container, secrets, patching, changes>>

\* The part of create_job that looks at the container.
admit ==
    /\ job.status = "Submitted"
    /\ job' = [job EXCEPT !.status = IF validate(container) /\ validate_options(container)
                                     THEN "VMPending" ELSE "Refused"]
    /\ UNCHANGED <<files, worker, attempts, rewritten>>
    /\ OnlyJob

start_resolve ==
    /\ job.status \in {"VMPending", "ContainerConfiguring"} /\ job.at = "idle"
    /\ attempts < MaxAttempts
    /\ attempts' = attempts + 1
    /\ job' = [job EXCEPT !.at = "reading", !.todo = referenced_secret_names(container),
                          !.read = Nothing]
    /\ UNCHANGED <<files, worker, rewritten>>
    /\ OnlyJob

\* resolve: one query per Secret.
read_secret ==
    /\ job.at = "reading" /\ job.todo # << >>
    /\ job' = [job EXCEPT !.todo = Tail(@),
                          !.read = IF Exists(Head(job.todo))
                                   THEN set_var(@, Head(job.todo), Fetch(Head(job.todo))) ELSE @]
    /\ UNCHANGED <<files, worker, attempts, rewritten>>
    /\ OnlyJob

\* A failed attempt, or an error: the handler starts over at a later tick.
GiveUp == [job EXCEPT !.at = "idle", !.read = Nothing, !.config = NoConfig, !.next = 1]

\* resolve_container_config: the config, or a failed attempt.
Resolved ==
    LET env == resolve_with_secrets(container, job.read)
    IN  IF env.ok THEN container_config(container, env.env) ELSE NoConfig

\* VMPending keeps nothing of the config; the script goes to create_server.
check_resolves ==
    /\ job.status = "VMPending" /\ job.at = "reading" /\ job.todo = << >>
    /\ IF Resolved.ok /\ generate(container)
       THEN /\ job' = [GiveUp EXCEPT !.status = "VolumeAttaching"]
            /\ worker' = [worker EXCEPT !.pc = "volume"]
       ELSE job' = GiveUp /\ UNCHANGED worker
    /\ UNCHANGED <<files, attempts, rewritten>>
    /\ OnlyJob

\* The volume, if there is one, is attached to the running VM.
attach_volume ==
    /\ job.status = "VolumeAttaching"
    /\ job' = [job EXCEPT !.status = "ContainerConfiguring", !.attached = container.volume]
    /\ UNCHANGED <<files, worker, attempts, rewritten>>
    /\ OnlyJob

config_resolved ==
    /\ job.status = "ContainerConfiguring" /\ job.at = "reading" /\ job.todo = << >>
    /\ job' = IF Resolved.ok THEN [job EXCEPT !.at = "uploading", !.config = Resolved]
              ELSE GiveUp
    /\ UNCHANGED <<files, worker, attempts, rewritten>>
    /\ OnlyJob

\* The contents of a file, and the attempt that wrote it.
Contents(file) == [by |-> attempts, is |-> IF file = "ready" THEN << >> ELSE job.config[file]]

\* Mutant of upload: "ready" goes first.
upload_ready_first(o) ==
    /\ job.at = "uploading"
    /\ LET file == Uploads[((job.next + 3) % 5) + 1]
       IN  /\ files' = IF o = "failed" THEN files ELSE set_var(files, file, Contents(file))
           /\ rewritten' = (rewritten \/ (o # "failed" /\ "ready" \in DOMAIN files /\ job.next = 1))
           /\ job' = IF o # "ok" THEN GiveUp
                     ELSE IF job.next = 5 THEN [GiveUp EXCEPT !.status = "ContainerRunning"]
                     ELSE [job EXCEPT !.next = @ + 1]
    /\ UNCHANGED <<worker, attempts>>
    /\ OnlyJob

\* One of the five SSH commands: written beside the file and renamed into place.  A
\* connection may break before or after, and then the handler gives up either way.
upload(o) ==
    /\ job.at = "uploading"
    /\ LET file == Uploads[job.next]
       IN  /\ files' = IF o = "failed" THEN files ELSE set_var(files, file, Contents(file))
           /\ rewritten' = (rewritten \/ (o # "failed" /\ "ready" \in DOMAIN files))
           /\ job' = IF o # "ok" THEN GiveUp
                     ELSE IF file = "ready" THEN [GiveUp EXCEPT !.status = "ContainerRunning"]
                     ELSE [job EXCEPT !.next = @ + 1]
    /\ UNCHANGED <<worker, attempts>>
    /\ OnlyJob

\* STUCK_STATE_TIMEOUT: what the job waits for never came.
force_failed ==
    /\ job.status \in {"VMPending", "VolumeAttaching", "ContainerConfiguring"} /\ job.at = "idle"
    /\ job' = [job EXCEPT !.status = "Failed"]
    /\ UNCHANGED <<files, worker, attempts, rewritten>>
    /\ OnlyJob

-----------------------------------------------------------------------------
(***************************************************************************)
(* The worker's script.                                                    *)
(***************************************************************************)

OnlyWorker == UNCHANGED <<container, secrets, patching, job, changes, attempts, rewritten>>

\* Five minutes for the device to show up, if one is expected; then the boot disk.
mount_scratch(timeout) ==
    /\ worker.pc = "volume"
    /\ timeout => container.volume
    /\ job.attached \/ timeout \/ ~container.volume
    /\ worker' = [worker EXCEPT !.pc = "config",
                                !.scratch = IF job.attached /\ ~timeout THEN "volume"
                                            ELSE "boot disk"]
    /\ UNCHANGED files
    /\ OnlyWorker

\* Reads one file; set -u is no set -e, so a missing one reads as empty.
Take(file) == IF file \in DOMAIN files THEN set_var(worker.got, file, files[file]) ELSE worker.got

Read(from, file, to) ==
    /\ worker.pc = from
    /\ worker' = [worker EXCEPT !.pc = to, !.got = Take(file)]
    /\ UNCHANGED files
    /\ OnlyWorker

read_command == "ready" \in DOMAIN files /\ Read("config", "command", "args")
read_args == Read("args", "args", "secretEnv")
read_secret_env == Read("secretEnv", "secretEnv", "user")

WithoutEnv == [f \in DOMAIN files \ {"env", "secretEnv"} |-> files[f]]

\* runAsNonRoot without runAsUser: the image's USER decides, once it is pulled.
check_user(pulled) ==
    /\ worker.pc = "user"
    /\ IF parse(container).nonRoot /\ parse(container).user = None
          /\ ~(pulled /\ container.imageUser = "uid")
       THEN /\ worker' = [worker EXCEPT !.pc = "refused"]
            /\ files' = WithoutEnv
       ELSE /\ worker' = [worker EXCEPT !.pc = "run"]
            /\ UNCHANGED files
    /\ OnlyWorker

\* podman run fails without its --env-file; otherwise the files with values go away.
podman_run ==
    /\ worker.pc = "run"
    /\ worker' = [worker EXCEPT !.pc = IF "env" \in DOMAIN files THEN "running" ELSE "refused",
                                !.got = Take("env")]
    /\ files' = WithoutEnv
    /\ OnlyWorker

-----------------------------------------------------------------------------

\* Changes to any other Secret make no difference here.
Referenced == Range(referenced_secret_names(container))

Next ==
    \/ \E n \in Referenced : \/ \E v \in {"v1", "v2"} : create_secret(n, [k \in {"A"} |-> v])
                            \/ \E p \in Patches : patch_reads(n, p)
                            \/ delete_secret(n)
    \/ patch_writes
    \/ admit \/ start_resolve \/ read_secret \/ check_resolves \/ attach_volume
    \/ config_resolved \/ force_failed
    \/ \E o \in {"ok", "lost", "failed"} : upload(o)
    \/ \E timeout \in BOOLEAN : mount_scratch(timeout)
    \/ read_command \/ read_args \/ read_secret_env
    \/ \E pulled \in BOOLEAN : check_user(pulled)
    \/ podman_run

Spec == Init /\ [][Next]_vars

-----------------------------------------------------------------------------
(***************************************************************************)
(* Properties.                                                             *)
(***************************************************************************)

Running == worker.pc = "running"

\* The variables the container runs with: the env file and the podman secrets.
Seen(file) == IF file \in DOMAIN worker.got THEN worker.got[file].is ELSE Nothing
Defined == DOMAIN Seen("env") \union DOMAIN Seen("secretEnv")

\* The env file is of one delivery and the podman secrets are of another.
Mixed == worker.got["env"].by # worker.got["secretEnv"].by

\* "Nothing is silently dropped" (container_env.rs:7): a container that runs has
\* every variable its spec does not call optional, whichever Secrets were created,
\* changed and deleted, and whichever uploads were lost, on the way; and the last
\* entry of a name has the say, over those of envFrom too.  The exception is a worker
\* that took its files from two deliveries: a value that had one line in the first
\* and several in the second is in neither file it read.
StartsComplete ==
    Running => \A i \in DOMAIN container.env :
        LET e == container.env[i]
            last == \A h \in DOMAIN container.env : h > i => container.env[h].name # e.name
            file == IF Multiline(e.field) THEN "secretEnv" ELSE "env"
        IN  /\ e.from \in {"value", "fieldRef"} \/ ~e.optional => e.name \in Defined \/ Mixed
            /\ e.from = "fieldRef" /\ last =>
                   e.name \in DOMAIN Seen(file) /\ Seen(file)[e.name] = e.field

\* The environment, the command and the arguments come from one reading of the
\* Secrets: $(VAR) in the command is the VAR the container sees.  The exception is a
\* config delivered again after its "ready" got through and the answer did not.
OneReading ==
    Running /\ ~rewritten =>
        /\ DOMAIN worker.got = {"env", "secretEnv", "command", "args"}
        /\ \A f, g \in DOMAIN worker.got : worker.got[f].by = worker.got[g].by

\* "runAsNonRoot ... checked like the kubelet does" (run_options.rs:22): with it in
\* force, wherever it and runAsUser are set, the container does not run as root.
NonRootHonoured ==
    Running /\ Or(container.sc.nonRoot, Or(container.pod.nonRoot, FALSE)) =>
        LET user == Or(container.sc.user, container.pod.user)
        IN  IF user = None THEN container.imageUser = "uid" ELSE user # 0

=============================================================================
