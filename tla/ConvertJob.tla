---------------------------- MODULE ConvertJob ----------------------------
(***************************************************************************)
(* internal/services/convert: a file, given by its address or uploaded, is *)
(* checked and handed to the first provider of the order that writes the   *)
(* wanted format; its job is asked about every two seconds, for a minute,  *)
(* and after that by the client, through GET /convert/status/<job id>.     *)
(*                                                                         *)
(* The tables of formats are constants: of them the model needs no more    *)
(* than a few rows.  inOrder is what ResolveProviderForCategory answers at *)
(* the time (ProviderOrder); all categories share it here.                 *)
(***************************************************************************)
EXTENDS Naturals, Sequences, Filters

CONSTANTS allowedFormats,       \* [category -> its formats]
          formatCompatibility,  \* [category -> [format -> what it can become]]
          supportedFormats,     \* [provider -> the formats it writes]
          ConvertOrders,        \* the orders admins bring about
          Wanted,               \* what is asked: [category, from, to, upload, file]
          Conversions,
          MaxChanges            \* bound on the changes of the order

ConvertProviders == <<"cloudconvert", "convertio">>

ASSUME ConvertAssumption ==
  /\ DOMAIN supportedFormats = {ConvertProviders[i] : i \in DOMAIN ConvertProviders}
  /\ ConvertOrders \subseteq Seq(DOMAIN supportedFormats) \ {<<>>}
  /\ \A w \in Wanted : w.category \in DOMAIN allowedFormats
  /\ DOMAIN formatCompatibility = DOMAIN allowedFormats /\ MaxChanges \in Nat

VARIABLES
  inOrder,
  orderChanges,  \* for its bound
  conversion,    \* conversion[r]: the request, at its step
  jobs           \* the providers' jobs: id -> state

convertVars == <<inOrder, orderChanges, conversion, jobs>>

ConvertInit ==
  /\ inOrder = ConvertProviders /\ orderChanges = 0
  /\ conversion = [r \in Conversions |-> [at |-> "idle"]]
  /\ jobs = [id \in {} |-> "none"]

Goes(r, v) == conversion' = [conversion EXCEPT ![r] = v]

----------------------------------------------------------------------------
(* What is refused before a provider is asked. *)

\* What a file is: one of a category's types, bytes of any type, or a type
\* the answer to HEAD does not name.
allowedContentTypes == [c \in DOMAIN allowedFormats |-> {c, "octet-stream"}]

\* Megabytes.
maxSizes == [audio |-> 100, document |-> 100, image |-> 50, fonts |-> 50]

\* Of an address: a type or a size that HEAD does not tell passes.
Validate(file, category) ==
  /\ file.reachable
  /\ file.type \in allowedContentTypes[category] \cup {"unnamed"}
  /\ file.megabytes <= maxSizes[category]

\* Of uploaded bytes, whose type is found out.
ValidateUpload(file, category) ==
  file.megabytes <= maxSizes[category] /\ file.type \in allowedContentTypes[category]

\* Only documents may leave the source format open.
validateCompatibility(category, from, to) ==
  \/ category = "document" /\ from = ""
  \/ /\ from \in DOMAIN formatCompatibility[category]
     /\ to \in formatCompatibility[category][from]

\* Images call jpeg jpg.
OutputFormat(category, to) == IF category = "image" /\ to = "jpeg" THEN "jpg" ELSE to

Writes(p, to) == to \in supportedFormats[p]

\* The first of the order that writes the format, if any.
findProvider(to) ==
  LET writers == Kept(inOrder, {p \in DOMAIN supportedFormats : Writes(p, to)}) IN
  IF writers = <<>> THEN "none" ELSE Head(writers)

\* Submit and SubmitUpload of the category's service.
Submitted(w) ==
  LET to == OutputFormat(w.category, w.to) IN
  IF to \notin allowedFormats[w.category] \/ ~ validateCompatibility(w.category, w.from, to)
     \/ findProvider(to) = "none"
  THEN [at |-> "refused"]
  ELSE [at |-> "create", upload |-> w.upload, provider |-> findProvider(to), late |-> FALSE]

\* SubmitAndWait, of what passes the check, and SubmitAndWaitUpload.
Converts(r, w) ==
  /\ conversion[r].at = "idle" /\ ~ w.upload
  /\ Goes(r, IF Validate(w.file, w.category) THEN Submitted(w) ELSE [at |-> "refused"])
  /\ UNCHANGED <<inOrder, orderChanges, jobs>>

Uploads(r, w) ==
  /\ conversion[r].at = "idle" /\ w.upload
  /\ Goes(r, IF ValidateUpload(w.file, w.category) THEN Submitted(w) ELSE [at |-> "refused"])
  /\ UNCHANGED <<inOrder, orderChanges, jobs>>

\* The routes: a handler of its own for each category, and two for each.
In(category) == {w \in Wanted : w.category = category}

ConvertDocument(r) == \E w \in In("document") : Converts(r, w)
ConvertAudio(r) == \E w \in In("audio") : Converts(r, w)
ConvertImage(r) == \E w \in In("image") : Converts(r, w)
ConvertFonts(r) == \E w \in In("fonts") : Converts(r, w)
UploadDocument(r) == \E w \in In("document") : Uploads(r, w)
UploadAudio(r) == \E w \in In("audio") : Uploads(r, w)
UploadImage(r) == \E w \in In("image") : Uploads(r, w)
UploadFonts(r) == \E w \in In("fonts") : Uploads(r, w)

ConvertRoute(r) ==
  \/ ConvertDocument(r) \/ ConvertAudio(r) \/ ConvertImage(r) \/ ConvertFonts(r)
  \/ UploadDocument(r) \/ UploadAudio(r) \/ UploadImage(r) \/ UploadFonts(r)

----------------------------------------------------------------------------
(* The provider. *)

Prefix == [cloudconvert |-> "cc_", convertio |-> "cv_"]

\* A slip: the error of the creation is not looked at.
Unnoticed(v, id) == [at |-> "poll", id |-> id, late |-> FALSE]

CreateFailed(v, id) == [at |-> "failed"]

WithJob(id, state) == [j \in DOMAIN jobs \cup {id} |-> IF j = id THEN state ELSE jobs[j]]

\* The provider makes a job and tells its id; or an error comes, whether the
\* job was made or not.
CreateJob(r) ==
  LET v == conversion[r]
      id == [prefix |-> Prefix[v.provider], of |-> r]
      made == WithJob(id, IF v.upload THEN "waiting" ELSE "processing") IN
  /\ v.at = "create"
  /\ \/ /\ Goes(r, [at |-> IF v.upload THEN "upload" ELSE "poll", id |-> id, late |-> FALSE])
        /\ jobs' = made
     \/ Goes(r, CreateFailed(v, id)) /\ jobs' \in {jobs, made}
  /\ UNCHANGED <<inOrder, orderChanges>>

\* The bytes follow; without them the job stays where it is.
UploadFile(r) ==
  LET v == conversion[r] IN
  /\ v.at = "upload"
  /\ \/ Goes(r, [v EXCEPT !.at = "poll"]) /\ jobs' = [jobs EXCEPT ![v.id] = "processing"]
     \/ Goes(r, [at |-> "failed"]) /\ UNCHANGED jobs
  /\ UNCHANGED <<inOrder, orderChanges>>

\* The job ends, well, without a file to fetch, or not well.
JobEnds(id) ==
  /\ jobs[id] = "processing"
  /\ \E end \in {"finished", "finishedEmpty", "error"} : jobs' = [jobs EXCEPT ![id] = end]
  /\ UNCHANGED <<inOrder, orderChanges, conversion>>

----------------------------------------------------------------------------
(* WaitForJob *)

\* A slip: the id is looked up among the providers of the order.
ResolveInOrder(id) == {p \in {inOrder[i] : i \in DOMAIN inOrder} : Prefix[p] = id.prefix}

\* The provider of the service whose prefix the id has.
ResolveProvider(id) ==
  {p \in {ConvertProviders[i] : i \in DOMAIN ConvertProviders} : Prefix[p] = id.prefix}

\* The ticker: the provider is asked.
PollTick(r) ==
  LET v == conversion[r] IN
  /\ v.at = "poll"
  /\ Goes(r, IF ResolveProvider(v.id) = {} THEN [at |-> "unknown"] ELSE [v EXCEPT !.at = "ask"])
  /\ UNCHANGED <<inOrder, orderChanges, jobs>>

\* Its answer, or an error, which ends the request.
PollAnswer(r) ==
  LET v == conversion[r] IN
  /\ v.at = "ask"
  /\ \/ Goes(r, [at |-> "failed"])
     \/ Goes(r, [v EXCEPT !.at = CASE jobs[v.id] \in {"finished", "finishedEmpty"} -> "answered"
                                   [] jobs[v.id] = "error" -> "providerFailed"
                                   [] OTHER -> "poll"])
  /\ UNCHANGED <<inOrder, orderChanges, jobs>>

\* The minute is over.
TimeIsUp(r) ==
  LET v == conversion[r] IN
  /\ v.at \in {"poll", "ask"} /\ ~ v.late /\ Goes(r, [v EXCEPT !.late = TRUE])
  /\ UNCHANGED <<inOrder, orderChanges, jobs>>

\* A slip: the case of the select is left, and not the loop.
BreaksOff(v) == v

\* 202, with the id of the job.
Accepted(v) == [v EXCEPT !.at = "accepted"]

\* The select takes the case of the timeout when it is ready, or the tick's
\* when that is ready too.
WaitEnds(r) ==
  /\ conversion[r].at = "poll" /\ conversion[r].late
  /\ Goes(r, Accepted(conversion[r]))
  /\ UNCHANGED <<inOrder, orderChanges, jobs>>

\* The client asks with the id it was given, and asks again after an error.
\* The route is the audio handler's, for jobs of every category.
Status(r) ==
  LET v == conversion[r] IN
  /\ v.at \in {"accepted", "status"}
  /\ Goes(r, IF ResolveProvider(v.id) = {} THEN [at |-> "unknown"]
             ELSE [at |-> "status", id |-> v.id, shows |-> jobs[v.id], late |-> FALSE])
  /\ UNCHANGED <<inOrder, orderChanges, jobs>>

\* An admin changes the order, and a refresh brings it into use.
OrderChanges ==
  /\ orderChanges < MaxChanges /\ orderChanges' = orderChanges + 1
  /\ inOrder' \in ConvertOrders
  /\ UNCHANGED <<conversion, jobs>>

----------------------------------------------------------------------------
ConvertStep(r) ==
  CreateJob(r) \/ UploadFile(r) \/ PollTick(r) \/ PollAnswer(r) \/ TimeIsUp(r) \/ WaitEnds(r)

ConvertNext ==
  \/ \E r \in Conversions :
       ConvertRoute(r) \/ ConvertStep(r) \/ Status(r)
  \/ \E id \in DOMAIN jobs : JobEnds(id)
  \/ OrderChanges

\* The provider's client gives up after a while and the timers fire; of the
\* cases that are ready the select takes each some time.  A job may never end.
ConvertFair ==
  \A r \in Conversions :
    /\ WF_convertVars(CreateJob(r) \/ UploadFile(r) \/ PollTick(r) \/ PollAnswer(r))
    /\ SF_convertVars(TimeIsUp(r)) /\ SF_convertVars(WaitEnds(r))

ConvertSpec == ConvertInit /\ [][ConvertNext]_convertVars /\ ConvertFair

----------------------------------------------------------------------------
Ended == {"refused", "failed", "unknown", "answered", "providerFailed", "accepted", "status"}

\* Who waits for a job waits for one that was made.
ConvertTypeOK ==
  \A r \in Conversions :
    conversion[r].at \in {"upload", "poll", "ask", "answered", "accepted", "status"} =>
      conversion[r].id \in DOMAIN jobs

\* Every request ends, though a job may never do so (WaitForJob).
ConvertReturns ==
  \A r \in Conversions : conversion[r].at = "create" ~> conversion[r].at \in Ended

\* The provider of a job is found again, by the request that waits and by the
\* client that was given its id, whatever becomes of the order meanwhile
\* (ResolveProvider, WaitForJob, Status).
JobsAreResolved == \A r \in Conversions : conversion[r].at # "unknown"

\* A job that a request waits for, or that a client was told of, was made and
\* can be asked for.
JobsStayKnown == ConvertTypeOK /\ JobsAreResolved
=============================================================================
