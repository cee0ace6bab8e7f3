---------------------------- MODULE ActivityOps ----------------------------
(***************************************************************************)
(* The words in which the modules of activities say what a do_activity does *)
(* to the outside, in the order in which it does it.  A script is a         *)
(* sequence of operations.  An operation acts on the session of the         *)
(* workflow's run (provider/execution_context.py), on what is stored or     *)
(* sent (buckets, queues, mail, other services: a thing is there or not),   *)
(* or asks something the script cannot know (a test on the article, the     *)
(* answer of a service).  What was read or asked is known to the rest of    *)
(* the attempt as a flag of the same name.                                  *)
(*                                                                         *)
(*   when, unless   the operation is passed over unless the attempt has all *)
(*                  flags of the first set and none of the second           *)
(*   instead        what a failure of the operation leads to: "raise", or   *)
(*                  the flag that the surrounding try clears                *)
(***************************************************************************)
EXTENDS Naturals, Sequences

Op(do, what) ==
    <<[do |-> do, what |-> what, when |-> {}, unless |-> {}, instead |-> "raise"]>>

-----------------------------------------------------------------------------
(* The session.  get_value never raises: it answers None for a key that was  *)
(* not stored and is not in the input of the workflow.                       *)

Get(key) == Op("get", key)          \* the flag: the value is not None and not blank
Put(key) == Op("put", key)
PutBlank(key) == Op("blank", key)   \* store None, False or an empty value
Need(key) == Op("need", key)        \* get_value, and None would raise in its use
Input(key) == Op("input", key)      \* data[key]: raises when the input lacks the key
Keep(key) == Op("keep", key)        \* store what the input has under the key, or None
Count(key) == Op("count", key)      \* add one; the flag: the maximum is reached

(* What is stored or sent. *)

Look(thing) == Op("look", thing)    \* the flag: the thing is there
Read(thing) == Op("read", thing)    \* raises when the thing is missing
Write(thing) == Op("write", thing)
Send(thing) == Op("send", thing)    \* a write that others act upon at once
Drop(thing) == Op("drop", thing)

(* The rest. *)

Fact(flag) == Op("fact", flag)      \* about the article or the settings: the same
                                    \* in every attempt of the activity
Ask(flag) == Op("ask", flag)        \* what a service or a bucket answers this time
Set(flag) == Op("set", flag)
Clear(flag) == Op("clear", flag)
Return(result) == Op("return", result)

\* The values do_activity returns and what worker.py makes of them: a string
\* other than the first two makes the workflow fail, True is a success, and
\* False, None or an exception is an attempt to be made again.
Succeed == Return("ActivitySuccess")
Retry == Return("ActivityTemporaryFailure")
Refuse == Return("ActivityPermanentFailure")
Raise == Return("raise")

-----------------------------------------------------------------------------
(* Blocks. *)

When(flag, ops) == [n \in DOMAIN ops |-> [ops[n] EXCEPT !.when = @ \cup {flag}]]

Unless(flag, ops) == [n \in DOMAIN ops |-> [ops[n] EXCEPT !.unless = @ \cup {flag}]]

Either(flag, yes, no) == When(flag, yes) \o Unless(flag, no)

\* try: ops, except: clear the flag and go on after the block
Try(flag, ops) ==
    Set(flag) \o
    [n \in DOMAIN ops |->
        [ops[n] EXCEPT !.when = @ \cup {flag}, !.instead = flag]]

\* A try around the work whose except ends the attempt, by giving the workflow
\* up or by having the activity made again; and, within it, a test and a
\* service that raise when the answer is no.
OrRefuse(ops) == Try("ok", ops) \o Unless("ok", Refuse)
OrRetry(ops) == Try("ok", ops) \o Unless("ok", Retry)
Check(flag) == Fact(flag) \o Unless(flag, Clear("ok"))
Call(service) == Ask(service) \o Unless(service, Clear("ok"))

\* update_github: contents that are there already are not committed again.  A
\* conflict, and an answer that does not come in time, are worth a retry.
UpdateGithub(file) ==
    Look(file)
    \o Try("committed",
        Ask("GitHub accepts") \o Unless("GitHub accepts", Clear("committed"))
        \o Unless(file, Send(file)))
    \o Unless("committed",
        Ask("worth a retry") \o Either("worth a retry", Retry, Refuse))

\* get_session(settings, data, data["run"])
Session == Input("run")
=============================================================================
