------------------------------ MODULE MCCopas ------------------------------
(* Small instances of the dispatcher.  One run checks them all: `part` is    *)
(* chosen at the start.  The first two differ in their constants only; the   *)
(* third has variables of its own.                                           *)
EXTENDS Copas

VARIABLES
    part,
    sl_sleeping, sl_reading, sl_writing, sl_reading_log, sl_writing_log, sl_servers, sl_phase,
    sl_evs, sl_stack, sl_thread, sl_socket, sl_client, sl_slept

Parts == {"plain", "ssl", "sleep"}

(* ------------------------------- instances -------------------------------- *)

\* The instance of the configuration is "plain": a server with a client; threads sleep, for
\* a time and for ever, and wake each other up.
PlainNaps == {-1, 1}

\* Sockets wrapped by LuaSec, which want to be read while they are written.
Ssl == INSTANCE Copas
       WITH Timeouts <- {0, 2}, Naps <- {}, Wants <- {"wantread", "wantwrite"},
            WakeTimed <- FALSE, MaxNesting <- 1

\* Threads that do nothing but sleep, also for no time; the loop has no timeout.
Sleep3 == INSTANCE Copas
          WITH Threads <- {"h1", "h2", "h3"}, Clients <- {},
               LoopTimeout <- NoDelay, Timeouts <- {}, Naps <- {-1, 0, 2}, Wants <- {},
               WakeTimed <- FALSE, MaxNesting <- 3,
               sleeping <- sl_sleeping, reading <- sl_reading, writing <- sl_writing,
               reading_log <- sl_reading_log, writing_log <- sl_writing_log,
               servers <- sl_servers, phase <- sl_phase, evs <- sl_evs, stack <- sl_stack,
               thread <- sl_thread, socket <- sl_socket, client <- sl_client,
               slept <- sl_slept

ASSUME Instances == Ssl!CopasAssumption /\ Sleep3!CopasAssumption

(* ------------------------------ behaviours -------------------------------- *)

sleepVars == <<sl_sleeping, sl_reading, sl_writing, sl_reading_log, sl_writing_log, sl_servers,
               sl_phase, sl_evs, sl_stack, sl_thread, sl_socket, sl_client, sl_slept>>
allVars == <<part, vars, sleepVars>>

MCInit == part \in Parts /\ Init /\ Sleep3!Init

Of(plain, ssl, sleep) ==
    /\ UNCHANGED part
    /\ \/ part = "plain" /\ plain /\ UNCHANGED sleepVars
       \/ part = "ssl" /\ ssl /\ UNCHANGED sleepVars
       \/ part = "sleep" /\ sleep /\ UNCHANGED vars

MCNext == Of(Next, Ssl!Next, Sleep3!Next)

\* The fairness of Copas: the loop goes on, attempts are made, and a thread in the end
\* sleeps or ends.
Turns == Of(Dispatch, Ssl!Dispatch, Sleep3!Dispatch)
Attempts == Of(Attempt, Ssl!Attempt, Sleep3!Attempt)
Leaving == Of(Leaves, Ssl!Leaves, Sleep3!Leaves)

MCSpec ==
    /\ MCInit /\ [][MCNext]_allVars
    /\ WF_allVars(Turns) /\ WF_allVars(Attempts) /\ SF_allVars(Leaving)

(* -------------------- properties, stated in the module -------------------- *)

\* NobodyLost, TimerWatched and ClosedAtEnd are those of Copas, for the first two instances.

\* With a timeout of the loop every receive, send or connect comes to an end.  Whoever
\* sleeps for a time is resumed, also when others sleep for no time on and on; and no
\* sleeper is lost.
WaitsEnd ==
    /\ part = "plain" => IoEnds
    /\ part = "ssl" => Ssl!IoEnds
    /\ part = "sleep" => Sleep3!SleepersWake
    /\ [](part = "sleep" => Sleep3!NobodyLost)
=============================================================================
