------------------------------ MODULE EpicPID ------------------------------
(***************************************************************************)
(* msiRegisterEpicPID (src/msiRegisterEpicPID.cc) with CredentialsStore    *)
(* (src/CredentialsStore.hh), called by a rule until it reports that the   *)
(* handle server has registered the PID.  The PUT may fail before or after *)
(* the server has acted on it, its answer may be lost, and a request that  *)
(* the client has given up may be acted on later.                          *)
(*                                                                         *)
(* An identifier is a number: how many times the prefix is in front of the *)
(* uuid of the rule.  A payload is PayloadSize[value] units long; what     *)
(* curl reads of it is a sequence of positions.                            *)
(***************************************************************************)
EXTENDS Naturals, Sequences, FiniteSets

CONSTANTS
    Values,       \* URLs to register
    PayloadSize,  \* size of the JSON payload for each of them
    MaxRead,      \* the most that curl asks of readCallback at a time
    Stores,       \* contents of the credentials store
    Refusals,     \* HTTP codes other than 200 and 201
    MaxCalls      \* bound: how often the rule calls

Keys == {"epic_url", "epic_handle_prefix", "epic_key", "epic_certificate"}

ASSUME EpicAssumption ==
    /\ PayloadSize \in [Values -> Nat \ {0}]
    /\ MaxRead \in Nat \ {0} /\ MaxCalls \in Nat \ {0}
    /\ Stores \subseteq [loaded : BOOLEAN, kind : [Keys -> {"absent", "string", "other"}]]
    /\ Refusals \cap {"", "0", "200", "201"} = {}

VARIABLES
    pc,        \* where the microservice is
    status,    \* its status
    value,     \* valueIn of this call
    id,        \* the rule's variable for idInOut
    code,      \* the rule's variable for httpCodeOut, "" before the first call
    creds,     \* the credentials store
    length,    \* static: what readCallback has not handed out yet
    fileSize,  \* CURLOPT_INFILESIZE
    body,      \* positions of the payload that curl has sent
    reply,     \* the server's answer on its way
    handles,   \* handles on the server
    stored,    \* everything the server has ever stored
    late,      \* requests that the client gave up and the server still has
    calls      \* calls made so far

outVars == <<id, code>>
curlVars == <<length, fileSize, body, reply>>
serverVars == <<handles, stored>>
epicVars == <<pc, status, value, outVars, creds, curlVars, serverVars, late, calls>>

Init ==
    /\ pc = "start" /\ status = "ok"
    /\ value \in Values
    /\ id = 0 /\ code = ""
    /\ creds \in Stores
    /\ length = 0 /\ fileSize = 0 /\ body = <<>> /\ reply = ""
    /\ handles = {} /\ stored = {} /\ late = {}
    /\ calls = 1

-----------------------------------------------------------------------------
(* CredentialsStore; get gives NULL for what is absent or not a string.    *)

isLoaded == creds.loaded
has(key) == isLoaded /\ creds.kind[key] # "absent"
get(key) == isLoaded /\ creds.kind[key] = "string"

-----------------------------------------------------------------------------
Return(s) == status' = s /\ pc' = "done"

\* std::string or strcmp of a NULL pointer: an exception leaves the
\* microservice, or the agent is lost.
Lose == pc' = "lost" /\ UNCHANGED status

\* The user is not privileged, the store could not be loaded, or valueIn has
\* the wrong type.
Reject ==
    /\ pc = "start"
    /\ \/ Return("SYS_USER_NO_PERMISSION")
       \/ ~isLoaded /\ Return("SYS_CONFIG_FILE_ERR")
       \/ isLoaded /\ Return("SYS_INVALID_INPUT_PARAM")
    /\ UNCHANGED <<value, outVars, creds, curlVars, serverVars, late, calls>>

\* parseMspForStr gives NULL: valueIn or idInOut is "null", or idInOut is no
\* string (its type is not checked), or valueIn has no type.
NullInput ==
    /\ pc = "start" /\ isLoaded
    /\ Lose
    /\ UNCHANGED <<value, outVars, creds, curlVars, serverVars, late, calls>>

NotConfigured ==
    /\ pc = "start" /\ isLoaded /\ ~has("epic_url")
    /\ code' = "0"
    /\ Return("ok")
    /\ UNCHANGED <<value, id, creds, curlVars, serverVars, late, calls>>

NullCredential ==
    /\ pc = "start" /\ has("epic_url")
    /\ \E key \in Keys : ~get(key)
    /\ Lose
    /\ UNCHANGED <<value, outVars, creds, curlVars, serverVars, late, calls>>

Configured == pc = "start" /\ \A key \in Keys : get(key)

\* curl_easy_init gives NULL: the call returns 0 and sets no output.
InitFails ==
    /\ Configured
    /\ Return("ok")
    /\ UNCHANGED <<value, outVars, creds, curlVars, serverVars, late, calls>>

\* Slip: length is not set for the new payload.
SlipPrepare ==
    /\ Configured
    /\ fileSize' = length
    /\ body' = <<>> /\ reply' = ""
    /\ pc' = "put"
    /\ UNCHANGED <<status, value, outVars, creds, length, serverVars, late, calls>>

\* The options of the request.
Prepare ==
    /\ Configured
    /\ length' = PayloadSize[value]
    /\ fileSize' = length'
    /\ body' = <<>> /\ reply' = ""
    /\ pc' = "put"
    /\ UNCHANGED <<status, value, outVars, creds, serverVars, late, calls>>

AtMost(m, n) == IF m <= n THEN m ELSE n

\* Slip: the payload is handed out from its start each time.
SlipReadCallback ==
    /\ pc = "put" /\ Len(body) < fileSize
    /\ \E room \in 1..MaxRead :
          LET len == AtMost(room, length)
          IN  /\ body' = body \o [i \in 1..len |-> i]
              /\ length' = length - len
    /\ UNCHANGED <<pc, status, value, outVars, creds, fileSize, reply, serverVars, late, calls>>

\* curl asks for the next part of the payload.
readCallback ==
    /\ pc = "put" /\ Len(body) < fileSize
    /\ \E room \in 1..MaxRead :
          LET len  == AtMost(room, length)
              from == PayloadSize[value] - length
          IN  /\ body' = body \o [i \in 1..len |-> from + i]
              /\ length' = length - len
    /\ UNCHANGED <<pc, status, value, outVars, creds, fileSize, reply, serverVars, late, calls>>

-----------------------------------------------------------------------------
(* The handle server (external).  It acts on a request whose body has the  *)
(* announced size.                                                         *)

pid == id + 1

request == [id |-> pid, value |-> value, body |-> body]

Store(req) ==
    /\ handles' = {h \in handles : h.id # req.id} \cup {req}
    /\ stored' = stored \cup {req}

Sent == pc = "put" /\ Len(body) = fileSize

ServerStores ==
    /\ Sent
    /\ reply' = IF \E h \in handles : h.id = pid THEN "200" ELSE "201"
    /\ Store(request)
    /\ pc' = "answer"
    /\ UNCHANGED <<status, value, outVars, creds, length, fileSize, body, late, calls>>

ServerRefuses ==
    /\ Sent
    /\ reply' \in Refusals
    /\ pc' = "answer"
    /\ UNCHANGED <<status, value, outVars, creds, length, fileSize, body, serverVars, late, calls>>

\* The server acts on a request of an earlier call.
ServerStoresLate ==
    /\ \E req \in late : Store(req) /\ late' = late \ {req}
    /\ UNCHANGED <<pc, status, value, outVars, creds, curlVars, calls>>

-----------------------------------------------------------------------------
\* curl_easy_perform fails: no connection, a connection that breaks while the
\* payload is sent or before the answer is there.  Whether the server gets to
\* see a request that was sent in full is not known.
PerformFails ==
    /\ pc \in {"put", "answer"}
    /\ late' \in IF Sent THEN {late, late \cup {request}} ELSE {late}
    /\ Return("SYS_INTERNAL_NULL_INPUT_ERR")
    /\ UNCHANGED <<value, outVars, creds, curlVars, serverVars, calls>>

\* Slip: idInOut gets the PID whatever the server says.
SlipAnswer ==
    /\ pc = "answer"
    /\ code' = reply
    /\ id' = pid
    /\ Return("ok")
    /\ UNCHANGED <<value, creds, curlVars, serverVars, late, calls>>

Answer ==
    /\ pc = "answer"
    /\ code' = reply
    /\ id' = IF reply \in {"200", "201"} THEN pid ELSE id
    /\ Return("ok")
    /\ UNCHANGED <<value, creds, curlVars, serverVars, late, calls>>

\* What a rule takes for success.
Reported == pc = "done" /\ status = "ok" /\ code \in {"200", "201"}

\* The rule calls again with the same variables, perhaps for another URL,
\* until the registration is reported.
CallAgain ==
    /\ pc = "done" /\ ~Reported
    /\ calls < MaxCalls
    /\ calls' = calls + 1
    /\ pc' = "start" /\ status' = "ok"
    /\ value' \in Values
    /\ UNCHANGED <<outVars, creds, curlVars, serverVars, late>>

msiRegisterEpicPID ==
    \/ Reject \/ NullInput \/ NotConfigured \/ NullCredential
    \/ InitFails \/ Prepare \/ readCallback
    \/ PerformFails \/ Answer

Idle == pc \in {"done", "lost"} /\ UNCHANGED epicVars

Next ==
    \/ msiRegisterEpicPID
    \/ ServerStores \/ ServerRefuses \/ ServerStoresLate
    \/ CallAgain
    \/ Idle

\* No fairness: no timeout is set, so a request may wait for ever.
Spec == Init /\ [][Next]_epicVars

-----------------------------------------------------------------------------
(* Properties.                                                             *)

Whole(req) == req.body = [i \in 1..PayloadSize[req.value] |-> i]

\* What a rule is told is so: when the call returns 0 with code 200 or 201 in
\* a variable that held neither before, the server has stored the URL of this
\* call, in a whole payload, under the identifier that idInOut now has.
ReportedIsRegistered ==
    Reported => \E req \in stored : req.id = id /\ req.value = value /\ Whole(req)

\* A rule that calls until the registration is reported gets one handle at
\* most, prefix/uuid, however many requests and answers were lost, refused or
\* acted on late: idInOut takes the prefix no sooner than the rule stops.
OneHandle == \A h \in handles : h.id = 1

\* Everything the server stores is a whole payload for the URL of its own
\* request, although the static counter is shared by all calls and a call may
\* leave it anywhere.
BodyWhole == \A req \in stored : Whole(req)
=============================================================================
