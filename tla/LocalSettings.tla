--------------------------- MODULE LocalSettings ---------------------------
(***************************************************************************)
(* The local settings control plane: server processes that share one       *)
(* .secrets directory, the session token each leaves there while it is up, *)
(* and the provider file, which is changed by PUT requests, by a person    *)
(* with an editor, and read by the model runtime.                          *)
(*                                                                         *)
(* A provider's entry is its destination (base URL and model, which are    *)
(* allowed or refused together) and its key.  Tokens and revisions are     *)
(* random, so a fresh one is one nobody holds.  A process serves one       *)
(* request at a time (its RLock); other processes and the person move      *)
(* between any two accesses to the files.                                  *)
(***************************************************************************)
EXTENDS Integers, FiniteSets

CONSTANTS Servers,     \* processes configured with the same .secrets directory
          Panels,      \* settings panels that send requests
          Keys,        \* API keys
          Tokens, Revisions,     \* names for random values
          PersonWrites,          \* what a person may put in the provider file
          MaxEdits, MaxKills     \* bounds on the person's writes and on crashes

Nothing == "nothing"
Providers == {"openai", "qwen"}
Entries == [dest : {"", "ok", "bad"}, key : Keys \cup {""}]
Unset == [dest |-> "", key |-> ""]
Documents == [Providers -> Entries]

\* _empty_document
EmptyDocument == [p \in Providers |-> IF p = "openai" THEN [dest |-> "ok", key |-> ""] ELSE Unset]

\* What is at the provider file's path: no file, a document, or a file whose text
\* or permissions are refused.
NoFile == [kind |-> "absent", doc |-> EmptyDocument]
Damaged == [kind |-> "damaged", doc |-> EmptyDocument]
Holding(doc) == [kind |-> "document", doc |-> doc]

\* TOML that breaks the schema is read and given a revision, but it is neither
\* answered nor edited into a valid document, just like two refused destinations.
Misshapen == Holding([p \in Providers |-> [dest |-> "bad", key |-> ""]])
FileStates == {NoFile, Damaged} \cup {Holding(doc) : doc \in Documents}

ASSUME SettingsAssumption ==
    /\ IsFiniteSet(Servers) /\ IsFiniteSet(Panels)
    /\ IsFiniteSet(Tokens) /\ IsFiniteSet(Revisions)
    /\ Cardinality(Tokens) > Cardinality(Servers) + 1
    /\ Cardinality(Revisions) > Cardinality(Servers) + Cardinality(Panels)
    /\ Nothing \notin Servers \cup Keys \cup Tokens \cup Revisions
    /\ "torn" \notin Tokens /\ "" \notin Keys /\ Keys # {}
    /\ PersonWrites \subseteq FileStates
    /\ {MaxEdits, MaxKills} \subseteq Nat

VARIABLES mode,        \* container_mode, the same for all processes
          server,      \* per process: where its start, close or request stands
          flock,       \* holder of the container lock
          tokenFile,   \* a token, "torn" when created and not yet written, or Nothing
          provFile,    \* the provider file
          view,        \* per panel the revision it was given last, and for what
          saved,       \* the file holds what a PUT wrote over a document seen before
          robbed,      \* processes whose token a failed start took away
          edits, kills

settingsVars == <<mode, server, flock, tokenFile, provFile, view, saved, robbed, edits, kills>>

NoRequest == [panel |-> Nothing, provider |-> "openai", base |-> NoFile, doc |-> EmptyDocument,
              raced |-> FALSE]
Off == [pc |-> "off", token |-> Nothing, seen |-> Nothing, base |-> NoFile,
        step |-> "idle", request |-> NoRequest]

SettingsInit ==
    /\ mode \in {"native", "container"}
    /\ server = [s \in Servers |-> Off]
    /\ flock = Nothing /\ tokenFile = Nothing
    /\ provFile \in {NoFile} \cup PersonWrites
    /\ view = [c \in Panels |-> [revision |-> Nothing, base |-> NoFile]]
    /\ saved = FALSE /\ robbed = {} /\ edits = 0 /\ kills = 0

----------------------------------------------------------------------------
(* Validation of documents.                                                *)

\* _validate_base_url_value, _validate_destination, _validate_model_value
DestinationAllowed(entry) == entry.dest = "ok"

\* _validate_api_key
KeyAllowed(entry, emptyToo) == emptyToo \/ entry.key # ""

\* validate_provider_document
ValidProviderDocument(doc, provider, emptyToo) ==
    \A name \in Providers :
        \/ name # provider /\ doc[name] = Unset
        \/ DestinationAllowed(doc[name]) /\ KeyAllowed(doc[name], emptyToo /\ name = provider)

\* The disposable placeholder for the key of a provider that is not edited.
EditorViewStrict(doc, provider) == doc

EditorView(doc, provider) ==
    [name \in Providers |->
        IF name # provider /\ doc[name].key = "" /\ doc[name].dest # ""
        THEN [doc[name] EXCEPT !.key = CHOOSE key \in Keys : TRUE]
        ELSE doc[name]]

\* _validate_document
ValidDocument(doc, provider) ==
    ValidProviderDocument(EditorView(doc, provider), provider, TRUE)

\* resolve_provider_connection from the local file, strict about every key.
Resolves(file, provider) ==
    file.kind = "document" /\ ValidProviderDocument(file.doc, provider, FALSE)

\* _read_document, which takes no file for the empty document.
ReadableFile(file) == file.kind # "damaged"

\* _fingerprint of what _read_document read.
Fingerprint(file) == Holding(file.doc)

----------------------------------------------------------------------------
(* Starting and closing a process.                                         *)

Fresh(pool, used) == CHOOSE x \in pool : x \notin used
NewToken == Fresh(Tokens, {tokenFile} \cup {server[s].token : s \in Servers})
NewRevision ==
    Fresh(Revisions, {server[s].seen : s \in Servers} \cup {view[c].revision : c \in Panels})

\* _set_revision_if_changed: the revision process s gives the file now.
RevisionNow(s) ==
    IF server[s].seen # Nothing /\ server[s].base = Fingerprint(provFile)
    THEN server[s].seen ELSE NewRevision

Noted(s) == [server[s] EXCEPT !.seen = RevisionNow(s), !.base = Fingerprint(provFile)]
At(s, pc) == server[s].pc = pc
Goto(s, pc) == server' = [server EXCEPT ![s].pc = pc]
TurnOff(s) == server' = [server EXCEPT ![s] = Off]

\* _release_container_lock
Released(s) == IF flock = s THEN Nothing ELSE flock

LockAlwaysFree(s) == s \in Servers

\* _acquire_container_lock: flock with LOCK_NB.
LockFree(s) == mode = "native" \/ flock \in {Nothing, s}

\* start, up to the lock; a refused lock ends the process with nothing done.
Start(s) ==
    /\ At(s, "off") /\ LockFree(s)
    /\ flock' = (IF mode = "container" THEN s ELSE flock)
    /\ robbed' = robbed \ {s}
    /\ Goto(s, "token")
    /\ UNCHANGED <<mode, tokenFile, provFile, view, saved, edits, kills>>

NeverRotates(token) == FALSE

\* _rotate_stale_token accepts only a whole token left by an earlier process.
Rotates(token) == mode = "container" /\ token \in Tokens

\* _write_new_restricted_file creates the token file, empty at first.
CreateToken(s) ==
    /\ At(s, "token") /\ tokenFile = Nothing
    /\ tokenFile' = "torn"
    /\ Goto(s, "write")
    /\ UNCHANGED <<mode, flock, provFile, view, saved, robbed, edits, kills>>

\* The token's bytes, or os.replace of the stale token by a new one.
WriteToken(s) ==
    /\ (At(s, "write") /\ tokenFile = "torn") \/ (At(s, "token") /\ Rotates(tokenFile))
    /\ tokenFile' = NewToken
    /\ server' = [server EXCEPT ![s].token = NewToken, ![s].pc = "refresh"]
    /\ UNCHANGED <<mode, flock, provFile, view, saved, robbed, edits, kills>>

\* A token file that cannot be created or rotated, or that a closing process has
\* removed before its permissions are set: the start fails.
TokenRefused(s) ==
    /\ \/ At(s, "token") /\ tokenFile # Nothing /\ ~Rotates(tokenFile)
       \/ At(s, "write") /\ tokenFile # "torn"
    /\ flock' = Released(s)
    /\ TurnOff(s)
    /\ UNCHANGED <<mode, tokenFile, provFile, view, saved, robbed, edits, kills>>

\* _refresh_revision_locked.  When the file cannot be read the start fails, and
\* the lifespan handler closes the service after its lock is released.
Refresh(s) ==
    /\ At(s, "refresh")
    /\ IF ReadableFile(provFile)
       THEN server' = [server EXCEPT ![s] = [Noted(s) EXCEPT !.pc = "up"]] /\ UNCHANGED flock
       ELSE Goto(s, "close") /\ flock' = Released(s)
    /\ UNCHANGED <<mode, tokenFile, provFile, view, saved, robbed, edits, kills>>

\* The application shuts down between two requests.
Shutdown(s) ==
    /\ At(s, "up") /\ server[s].step = "idle"
    /\ Goto(s, "close")
    /\ UNCHANGED <<mode, flock, tokenFile, provFile, view, saved, robbed, edits, kills>>

\* close compares the token file with its own token ...
CloseCompare(s) ==
    /\ At(s, "close")
    /\ IF tokenFile = server[s].token
       THEN Goto(s, "unlink") /\ UNCHANGED flock
       ELSE TurnOff(s) /\ flock' = Released(s)
    /\ UNCHANGED <<mode, tokenFile, provFile, view, saved, robbed, edits, kills>>

\* ... and removes it.  A process whose start failed no longer holds the lock.
CloseUnlink(s) ==
    /\ At(s, "unlink")
    /\ tokenFile' = Nothing
    /\ robbed' = (IF flock = s THEN {} ELSE {t \in Servers \ {s} : server[t].token = tokenFile})
                 \cup robbed
    /\ TurnOff(s) /\ flock' = Released(s)
    /\ UNCHANGED <<mode, provFile, view, saved, edits, kills>>

\* The process dies: its memory and its lock go, its token file stays.
Kill(s) ==
    /\ ~At(s, "off") /\ kills < MaxKills
    /\ kills' = kills + 1
    /\ TurnOff(s) /\ flock' = Released(s)
    /\ UNCHANGED <<mode, tokenFile, provFile, view, saved, robbed, edits>>

----------------------------------------------------------------------------
(* Requests.                                                               *)

\* guarded and verify_token: a panel sends the token it found in the file, which
\* held that of each process that is up at the time it came up.
Admitted(s) == At(s, "up") /\ server[s].step = "idle"

\* _get_locked answers once the document is valid for the editor and for the
\* provider, which Qwen need not be while it is unset.
Answers(file, provider) ==
    /\ ReadableFile(file)
    /\ ValidDocument(file.doc, "openai")
    /\ \/ provider = "qwen" /\ file.doc["qwen"] = Unset
       \/ ValidDocument(file.doc, provider)

\* get
Get(s, c, provider) ==
    /\ Admitted(s) /\ ReadableFile(provFile)
    /\ server' = [server EXCEPT ![s] = Noted(s)]
    /\ view' = (IF Answers(provFile, provider)
                THEN [view EXCEPT ![c] = [revision |-> RevisionNow(s), base |-> Fingerprint(provFile)]]
                ELSE view)
    /\ UNCHANGED <<mode, flock, tokenFile, provFile, saved, robbed, edits, kills>>

\* The document a PUT asks for: keep, replace or clear the key of one provider.
Edited(doc, provider, dest, keys) ==
    {[doc EXCEPT ![provider] = [dest |-> dest, key |-> key]] : key \in keys}

\* put, to the end of its checks: the revision is compared, the new document
\* validated, and its bytes written to a temporary file.
PutBegin(s, c, provider, dest) ==
    /\ Admitted(s) /\ ReadableFile(provFile)
    /\ \E doc \in Edited(provFile.doc, provider, dest,
                         Keys \cup {"", provFile.doc[provider].key}) :
           LET accepted == view[c].revision = RevisionNow(s) /\ ValidDocument(doc, provider)
           IN  server' = [server EXCEPT ![s] =
                   IF accepted
                   THEN [Noted(s) EXCEPT !.step = "staged",
                                         !.request = [panel |-> c, provider |-> provider,
                                                      base |-> Fingerprint(provFile), doc |-> doc,
                                                      raced |-> FALSE]]
                   ELSE Noted(s)]
    /\ UNCHANGED <<mode, flock, tokenFile, provFile, view, saved, robbed, edits, kills>>

StillBaseBlind(s) == ReadableFile(provFile)

\* _current_fingerprint against the one the PUT began from.
StillBase(s) == ReadableFile(provFile) /\ Fingerprint(provFile) = server[s].request.base

\* The check before os.replace; a conflict removes the temporary file.
PutCheck(s) ==
    /\ At(s, "up") /\ server[s].step = "staged"
    /\ server' = [server EXCEPT ![s].step = IF StillBase(s) THEN "checked" ELSE "idle"]
    /\ UNCHANGED <<mode, flock, tokenFile, provFile, view, saved, robbed, edits, kills>>

\* os.replace
PutReplace(s) ==
    /\ At(s, "up") /\ server[s].step = "checked"
    /\ provFile' = Holding(server[s].request.doc)
    /\ saved' = ~server[s].request.raced
    /\ server' = [server EXCEPT ![s].step = "replaced"]
    /\ UNCHANGED <<mode, flock, tokenFile, view, robbed, edits, kills>>

\* The file is read back, validated, given its revision, and answered.
PutAnswer(s) ==
    /\ At(s, "up") /\ server[s].step = "replaced"
    /\ LET request == server[s].request
           read == IF ReadableFile(provFile) THEN Noted(s) ELSE server[s]
       IN  /\ server' = [server EXCEPT ![s] = [read EXCEPT !.step = "idle", !.request = NoRequest]]
           /\ view' = (IF Answers(provFile, request.provider)
                       THEN [view EXCEPT ![request.panel] =
                                [revision |-> RevisionNow(s), base |-> Fingerprint(provFile)]]
                       ELSE view)
    /\ UNCHANGED <<mode, flock, tokenFile, provFile, saved, robbed, edits, kills>>

----------------------------------------------------------------------------
(* The person at the machine.                                              *)

\* The provider file is written or removed by hand, at any moment.
PersonEdits(file) ==
    /\ edits < MaxEdits /\ provFile # file
    /\ edits' = edits + 1
    /\ provFile' = file /\ saved' = FALSE
    /\ server' = [s \in Servers |->
                    IF server[s].step = "checked"
                    THEN [server[s] EXCEPT !.request.raced = TRUE] ELSE server[s]]
    /\ UNCHANGED <<mode, flock, tokenFile, view, robbed, kills>>

\* A left-over token is removed by hand, while no process is there.
PersonRemovesToken ==
    /\ \A s \in Servers : At(s, "off")
    /\ tokenFile # Nothing
    /\ tokenFile' = Nothing
    /\ UNCHANGED <<mode, server, flock, provFile, view, saved, robbed, edits, kills>>

ServerStep(s) ==
    \/ Start(s) \/ CreateToken(s) \/ WriteToken(s) \/ TokenRefused(s) \/ Refresh(s)
    \/ CloseCompare(s) \/ CloseUnlink(s) \/ PutCheck(s) \/ PutReplace(s) \/ PutAnswer(s)

SettingsNext ==
    \/ \E s \in Servers : ServerStep(s) \/ Shutdown(s) \/ Kill(s)
    \/ \E s \in Servers, c \in Panels, provider \in Providers :
           \/ Get(s, c, provider)
           \/ \E dest \in {"ok", "bad"} : PutBegin(s, c, provider, dest)
    \/ \E file \in PersonWrites \cup {NoFile} : PersonEdits(file)
    \/ PersonRemovesToken

SettingsSpec == SettingsInit /\ [][SettingsNext]_settingsVars

----------------------------------------------------------------------------
(* Properties.                                                             *)

\* A PUT replaces only the document whose revision the panel held, and only the
\* entry it edits: a change the panel had not seen is never lost, except one
\* written by hand between the last check of the fingerprint and os.replace.
SeenBeforeReplaced ==
    [][\A s \in Servers :
        LET request == server[s].request
        IN  server[s].step = "checked" /\ server'[s].step = "replaced" /\ ~request.raced =>
                /\ Fingerprint(provFile) = view[request.panel].base
                /\ \A other \in Providers \ {request.provider} :
                       provFile'.doc[other] = provFile.doc[other]]_settingsVars

\* What a PUT saved can be opened again for every provider, although PUT
\* validates it for the provider it edits and GET for OpenAI first; and the
\* runtime resolves every provider in it once no destination lacks its key.
EditorReopens ==
    saved =>
        /\ \A provider \in Providers : Answers(provFile, provider)
        /\ (\A name \in Providers : provFile.doc[name] # Unset => provFile.doc[name].key # "") =>
               \A name \in Providers : provFile.doc[name] # Unset => Resolves(provFile, name)

\* At most one process serves, and the token file holds its token, as a panel
\* needs: neither a second start nor a closing process takes it away, except a
\* process whose start failed and that removes its token after giving up the lock.
TokenServesHolder ==
    /\ \A s, t \in Servers : At(s, "up") /\ At(t, "up") => s = t
    /\ \A s \in Servers : At(s, "up") => tokenFile = server[s].token \/ s \in robbed

\* The token file keeps a process from starting until a person removes it: a
\* token nobody holds in native mode, a torn one in container mode.
LeftBehind ==
    IF mode = "native"
    THEN tokenFile # Nothing /\ \A s \in Servers : At(s, "off") \/ At(s, "token")
    ELSE tokenFile = "torn" /\ \A s \in Servers : ~At(s, "write")
=============================================================================
