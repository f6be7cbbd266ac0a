------------------------------ MODULE NifAsync -------------------------------
(***************************************************************************)
(* The asynchronous NIF calls of c_src/nif/async_methods.cpp: an Erlang    *)
(* process makes a reference and calls one of the five *_async NIFs; the   *)
(* NIF runs on a scheduler thread, allocates a callback_data and hands it  *)
(* to the Aerospike client library; the callback runs on an event loop     *)
(* thread, sends one message to the caller and deletes the callback_data;  *)
(* the caller waits for the message with a timeout, in one of the two ways *)
(* of the test suite.  A NIF and a callback are separate threads: the      *)
(* callback may run before the NIF has returned {ok, in_progress}.         *)
(***************************************************************************)
CONSTANTS Procs,      \* Erlang processes that make calls
          Refs,       \* references, each used by one call at most
          Selective,  \* the processes that wait with await_async
          NoProc      \* owner of a reference not made yet

ASSUME SelectiveAssumption == Selective \subseteq Procs
ASSUME NoProcAssumption    == NoProc \notin Procs

(***************************************************************************)
(* The five operations differ in control at two places only: cdt_put_async *)
(* returns at once when there is no bin (PutNothing), and the callback of  *)
(* segment_tag_get_async may throw ("segment").  "record" stands for       *)
(* cdt_put, cdt_get, cdt_delete_by_keys and cdt_delete_by_keys_batch.      *)
(***************************************************************************)
Kinds    == {"segment", "record"}
Results  == {"ok", "error"}
InNif    == {"preparing", "submitted"}
Pending  == InNif \cup {"waiting"}
Final    == {"badarg", "nothing", "not_connected", "refused", "timeout", "gone"}
              \cup Results
Messages == [ref : Refs, rc : Results]

VARIABLES
    connected,  \* is_connected_flag
    owner,      \* the process that made each reference: callback_data::caller_pid
    kind,       \* the operation called with the reference
    call,       \* where the call stands, as its caller sees it
    cbd,        \* the callback_data of the call, and who holds it
    result,     \* what the library reported to the callback
    mailbox,    \* the answers in each process's mailbox
    dead,       \* the processes that have exited
    vm          \* "up", or "down" after std::terminate

vars == <<connected, owner, kind, call, cbd, result, mailbox, dead, vm>>

TypeOK == /\ connected \in BOOLEAN
          /\ owner \in [Refs -> Procs \cup {NoProc}]
          /\ kind \in [Refs -> Kinds]
          /\ call \in [Refs -> {"unused"} \cup Pending \cup Final]
          /\ cbd \in [Refs -> {"none", "nif", "lib", "sent", "freed", "lost"}]
          /\ result \in [Refs -> {"none"} \cup Results]
          /\ mailbox \in [Procs -> SUBSET Messages]
          /\ dead \subseteq Procs
          /\ vm \in {"up", "down"}

Init == /\ connected = FALSE
        /\ owner = [r \in Refs |-> NoProc]
        /\ kind = [r \in Refs |-> "record"]
        /\ call = [r \in Refs |-> "unused"]
        /\ cbd = [r \in Refs |-> "none"]
        /\ result = [r \in Refs |-> "none"]
        /\ mailbox = [p \in Procs |-> {}]
        /\ dead = {}
        /\ vm = "up"

-----------------------------------------------------------------------------
(* The caller enters a NIF *)

\* p is running Erlang code and r is a reference it has just made.
Calls(p, r) ==
    /\ vm = "up" /\ p \notin dead
    /\ \A s \in Refs : owner[s] = p => call[s] \in Final
    /\ call[r] = "unused"
    /\ owner' = [owner EXCEPT ![r] = p]

\* The NIF returns before it has allocated anything.
Return(r, answer) ==
    /\ call' = [call EXCEPT ![r] = answer]
    /\ UNCHANGED <<connected, kind, cbd, result, mailbox, dead, vm>>

\* Some argument has the wrong type; cdt_put_async looks at ttl, policy and
\* bins only after the connection check, every NIF before the allocation.
BadArg(p, r) == Calls(p, r) /\ Return(r, "badarg")

\* cdt_put_async without bins: {ok, "put"}, whether connected or not.
PutNothing(p, r) == Calls(p, r) /\ Return(r, "nothing")

NotConnected(p, r) == ~connected /\ Calls(p, r) /\ Return(r, "not_connected")

\* The check passed: new callback_data(env, argv[0], ...).
Prepare(p, r, k) ==
    /\ connected
    /\ Calls(p, r)
    /\ kind' = [kind EXCEPT ![r] = k]
    /\ call' = [call EXCEPT ![r] = "preparing"]
    /\ cbd' = [cbd EXCEPT ![r] = "nif"]
    /\ UNCHANGED <<connected, result, mailbox, dead, vm>>

\* aerospike_key_operate_async (or _get_, _select_, batch_write_) returns
\* AEROSPIKE_OK: from here on the callback may run.
Submit(r) ==
    /\ vm = "up" /\ call[r] = "preparing"
    /\ call' = [call EXCEPT ![r] = "submitted"]
    /\ cbd' = [cbd EXCEPT ![r] = "lib"]
    /\ UNCHANGED <<connected, owner, kind, result, mailbox, dead, vm>>

\* Mutant: the NIF forgets the callback_data of a failed submit.
SubmitFailsLeaks(r) ==
    /\ vm = "up" /\ call[r] = "preparing"
    /\ call' = [call EXCEPT ![r] = "refused"]
    /\ UNCHANGED <<connected, owner, kind, cbd, result, mailbox, dead, vm>>

\* Mutant: the library keeps a command whose submit has failed.
SubmitFailsKeeps(r) ==
    /\ vm = "up" /\ call[r] = "preparing"
    /\ call' = [call EXCEPT ![r] = "refused"]
    /\ cbd' = [cbd EXCEPT ![r] = "lib"]
    /\ UNCHANGED <<connected, owner, kind, result, mailbox, dead, vm>>

\* It returns another status: the callback will not run, so the NIF deletes
\* the callback_data itself and returns the error.
SubmitFails(r) ==
    /\ vm = "up" /\ call[r] = "preparing"
    /\ call' = [call EXCEPT ![r] = "refused"]
    /\ cbd' = [cbd EXCEPT ![r] = "freed"]
    /\ UNCHANGED <<connected, owner, kind, result, mailbox, dead, vm>>

ReturnInProgress(r) ==
    /\ vm = "up" /\ call[r] = "submitted"
    /\ call' = [call EXCEPT ![r] = "waiting"]
    /\ UNCHANGED <<connected, owner, kind, cbd, result, mailbox, dead, vm>>

-----------------------------------------------------------------------------
(* The callback on the event loop *)

\* Mutant: the message is built before the result is known.
CallbackSendEarly(r, rc) ==
    /\ vm = "up" /\ cbd[r] = "lib"
    /\ result' = [result EXCEPT ![r] = rc]
    /\ mailbox' = IF owner[r] \in dead THEN mailbox
                  ELSE [mailbox EXCEPT ![owner[r]] = @ \cup {[ref |-> r, rc |-> result[r]]}]
    /\ cbd' = [cbd EXCEPT ![r] = "sent"]
    /\ UNCHANGED <<connected, owner, kind, call, dead, vm>>

\* The callback builds {ok | error, Ref, _} and calls enif_send; a message
\* to a process that has exited goes nowhere.
CallbackSend(r, rc) ==
    /\ vm = "up" /\ cbd[r] = "lib"
    /\ result' = [result EXCEPT ![r] = rc]
    /\ mailbox' = IF owner[r] \in dead THEN mailbox
                  ELSE [mailbox EXCEPT ![owner[r]] = @ \cup {[ref |-> r, rc |-> rc]}]
    /\ cbd' = [cbd EXCEPT ![r] = "sent"]
    /\ UNCHANGED <<connected, owner, kind, call, dead, vm>>

\* Mutant: the callback_data is deleted only when enif_send has succeeded.
CallbackFreeIfSent(r) ==
    /\ vm = "up" /\ cbd[r] = "sent" /\ owner[r] \notin dead
    /\ cbd' = [cbd EXCEPT ![r] = "freed"]
    /\ UNCHANGED <<connected, owner, kind, call, result, mailbox, dead, vm>>

\* ... and deletes the callback_data, whoever got the message.
CallbackFree(r) ==
    /\ vm = "up" /\ cbd[r] = "sent"
    /\ cbd' = [cbd EXCEPT ![r] = "freed"]
    /\ UNCHANGED <<connected, owner, kind, call, result, mailbox, dead, vm>>

\* segment_tag_get_async_callback throws a string literal when the record or
\* the bin is missing or the bin is of another type; its handler is for
\* char*, which a const char* does not match, so the exception leaves the
\* callback and std::terminate ends the VM.
CallbackThrows(r) ==
    /\ vm = "up" /\ cbd[r] = "lib" /\ kind[r] = "segment"
    /\ vm' = "down"
    /\ UNCHANGED <<connected, owner, kind, call, cbd, result, mailbox, dead>>

-----------------------------------------------------------------------------
(* The caller waits *)

\* The messages a receive of the call r would take: await_async matches the
\* reference, receive_with_ref_filter matches every message.
Matching(r) ==
    {m \in mailbox[owner[r]] : owner[r] \in Selective => m.ref = r}

\* Mutant: the caller takes whatever it receives for its answer.
ReceiveAny(r) ==
    /\ vm = "up" /\ call[r] = "waiting"
    /\ \E m \in Matching(r) :
          /\ call' = [call EXCEPT ![r] = m.rc]
          /\ mailbox' = [mailbox EXCEPT ![owner[r]] = @ \ {m}]
    /\ UNCHANGED <<connected, owner, kind, cbd, result, dead, vm>>

\* Mutant: a call that has timed out still takes its answer.
ReceiveLate(r) ==
    /\ vm = "up" /\ call[r] \in {"waiting", "timeout"}
    /\ \E m \in Matching(r) :
          /\ m.ref = r
          /\ call' = [call EXCEPT ![r] = m.rc]
          /\ mailbox' = [mailbox EXCEPT ![owner[r]] = @ \ {m}]
    /\ UNCHANGED <<connected, owner, kind, cbd, result, dead, vm>>

\* The answer to the call itself.
Receive(r) ==
    /\ vm = "up" /\ call[r] = "waiting"
    /\ \E m \in Matching(r) :
          /\ m.ref = r
          /\ call' = [call EXCEPT ![r] = m.rc]
          /\ mailbox' = [mailbox EXCEPT ![owner[r]] = @ \ {m}]
    /\ UNCHANGED <<connected, owner, kind, cbd, result, dead, vm>>

\* receive_with_ref_filter takes a message with another reference, drops it
\* and waits again.  The mailbox is a set: it may be served in any order,
\* arrival order included.
DropStale(r) ==
    /\ vm = "up" /\ call[r] = "waiting"
    /\ \E m \in Matching(r) :
          /\ m.ref # r
          /\ mailbox' = [mailbox EXCEPT ![owner[r]] = @ \ {m}]
    /\ UNCHANGED <<connected, owner, kind, call, cbd, result, dead, vm>>

\* Mutant: the filtering receive has no "after" clause.
TimeOutSelective(r) ==
    /\ vm = "up" /\ call[r] = "waiting"
    /\ Matching(r) = {} /\ owner[r] \in Selective
    /\ call' = [call EXCEPT ![r] = "timeout"]
    /\ UNCHANGED <<connected, owner, kind, cbd, result, mailbox, dead, vm>>

\* The receive times out: nothing it matches is in the mailbox.
TimeOut(r) ==
    /\ vm = "up" /\ call[r] = "waiting"
    /\ Matching(r) = {}
    /\ call' = [call EXCEPT ![r] = "timeout"]
    /\ UNCHANGED <<connected, owner, kind, cbd, result, mailbox, dead, vm>>

\* A process exits, while it waits or between two calls; a process inside a
\* NIF exits after the NIF has returned.
Die(p) ==
    /\ vm = "up" /\ p \notin dead
    /\ \A r \in Refs : owner[r] = p => call[r] \notin InNif
    /\ dead' = dead \cup {p}
    /\ mailbox' = [mailbox EXCEPT ![p] = {}]
    /\ call' = [r \in Refs |-> IF owner[r] = p /\ call[r] = "waiting"
                               THEN "gone" ELSE call[r]]
    /\ UNCHANGED <<connected, owner, kind, cbd, result, vm>>

-----------------------------------------------------------------------------
(* The connection, as far as these calls see it *)

Connect == /\ vm = "up" /\ ~connected
           /\ connected' = TRUE
           /\ UNCHANGED <<owner, kind, call, cbd, result, mailbox, dead, vm>>

\* aerospike_close lets the commands in flight end, or drops some of them:
\* the callback of a dropped command never runs.
Disconnect ==
    /\ vm = "up" /\ connected
    /\ connected' = FALSE
    /\ \E dropped \in SUBSET {r \in Refs : cbd[r] = "lib"} :
          cbd' = [r \in Refs |-> IF r \in dropped THEN "lost" ELSE cbd[r]]
    /\ UNCHANGED <<owner, kind, call, result, mailbox, dead, vm>>

-----------------------------------------------------------------------------
Enter(p, r) == \/ BadArg(p, r) \/ PutNothing(p, r) \/ NotConnected(p, r)
               \/ \E k \in Kinds : Prepare(p, r, k)

Library(r) == Submit(r) \/ SubmitFails(r)
Callback(r) == CallbackThrows(r) \/ \E rc \in Results : CallbackSend(r, rc)
Wait(r) == Receive(r) \/ DropStale(r) \/ TimeOut(r)

Next == \/ \E p \in Procs, r \in Refs : Enter(p, r)
        \/ \E r \in Refs : \/ Library(r) \/ ReturnInProgress(r)
                           \/ Callback(r) \/ CallbackFree(r) \/ Wait(r)
        \/ \E p \in Procs : Die(p)
        \/ Connect
        \/ Disconnect

(***************************************************************************)
(* A NIF that has started runs to its end; the library ends a command (the *)
(* policies give it a total timeout, default 1 s) and calls back; a        *)
(* callback that has sent goes on to its delete; a receive ends by its     *)
(* "after" clause.  Nobody is obliged to make a call, to connect, to       *)
(* disconnect or to exit.                                                  *)
(***************************************************************************)
Fairness == \A r \in Refs : /\ WF_vars(Library(r))
                            /\ WF_vars(ReturnInProgress(r))
                            /\ WF_vars(Callback(r))
                            /\ WF_vars(CallbackFree(r))
                            /\ WF_vars(Wait(r))

Spec == Init /\ [][Next]_vars
FairSpec == Spec /\ Fairness

-----------------------------------------------------------------------------
(* Properties *)

\* A caller that gets an answer gets the one of its own command, though the
\* answer of an earlier call it gave up may be in its mailbox: what Receive
\* accepts is what the library reported for that very reference.
OwnAnswer == \A r \in Refs : call[r] \in Results => result[r] = call[r]

\* A message in a mailbox belongs to a call of that process which still waits
\* or has timed out, never to a call that was answered synchronously ({error,
\* _} after a failed submit included) or has had its answer already, and it
\* says what the library reported.
MailIsFromOwnCall ==
    \A p \in Procs : \A m \in mailbox[p] :
        /\ owner[m.ref] = p
        /\ call[m.ref] \in {"submitted", "waiting", "timeout"}
        /\ result[m.ref] = m.rc

\* Every callback_data has exactly one holder: the NIF while it prepares the
\* command, then the library, then the callback; it is deleted when the
\* submit failed or the answer was sent, and a call refused before the
\* allocation has none.
CallbackDataHasOneHolder ==
    \A r \in Refs :
        /\ (cbd[r] = "none")
             <=> (call[r] \in {"unused", "badarg", "nothing", "not_connected"})
        /\ (cbd[r] = "nif") <=> (call[r] = "preparing")
        /\ (call[r] = "refused") => (cbd[r] = "freed")
        /\ (result[r] # "none")
             <=> (cbd[r] = "sent" \/ (cbd[r] = "freed" /\ call[r] # "refused"))

\* What a call ended with is never revised (a late answer does not change a
\* timeout), and a callback_data that is gone is never used again.
KeepsEnd(r) == /\ call[r] \in Final => call'[r] = call[r]
               /\ cbd[r] \in {"freed", "lost"} => cbd'[r] = cbd[r]
EndIsFinal == [][\A r \in Refs : KeepsEnd(r)]_vars

\* No callback_data leaks, even when its caller exits or has given up,
\* except those of commands a disconnect dropped.
CallbackDataIsReleased ==
    \A r \in Refs : (cbd[r] \in {"nif", "lib", "sent"})
                        ~> (cbd[r] \in {"freed", "lost"} \/ vm = "down")

\* The calls implement the promise of the API; in particular every call ends:
\* whatever the library, the other processes and the connection do, a caller
\* does not stay in the NIF or in its receive.
AbstractCall == [r \in Refs |-> IF call[r] \in Pending THEN "pending" ELSE call[r]]
Abstract == INSTANCE AsyncCall
                WITH call <- AbstractCall, result <- result, up <- vm = "up"
ImplementsAsyncCall == Abstract!Spec

\* "-> {ok, binary() | map()} | {error, {integer(), integer(), string()}}", the
\* -spec of segment_tag_get_async: reading a tag ends with a value or with an
\* error, and so never with the end of the VM.
SegmentTagGetAnswers == vm = "up"

=============================================================================
