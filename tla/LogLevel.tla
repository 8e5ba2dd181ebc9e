------------------------------- MODULE LogLevel -------------------------------
(***************************************************************************)
(* Log levels (src/include/diagnostics/logging.h): scopes that set the     *)
(* level of all loggers, and loggers, which may also be given a level of   *)
(* their own.  spdlog is external: it keeps the level of each logger, the  *)
(* level from which that flushes its file, and the level a new one gets.   *)
(***************************************************************************)
EXTENDS Naturals, SequencesExt

CONSTANTS
  Names,       (* of loggers                                               *)
  Levels,
  LOG_LEVEL,   (* the level that the configuration sets                    *)
  None,        (* no such logger                                           *)
  MaxScopes    (* bound: how deep scopes nest                              *)

VARIABLES
  base_log_level,  (* the level of that object                             *)
  scopes,          (* the levels of the level_setters alive, outermost     *)
                   (* first                                                *)
  default,         (* the level of new loggers                             *)
  loggers,         (* the level and flush level of each logger             *)
  own              (* history: the loggers whose level was set since the   *)
                   (* last scope began or ended                            *)

vars == <<base_log_level, scopes, default, loggers, own>>

Exists(n) == loggers[n] # None

\* spdlog::set_level, then flush_on for all loggers.
set(level) ==
  /\ default' = level
  /\ loggers' = [n \in Names |-> IF Exists(n) THEN [level |-> level, flush |-> level]
                                              ELSE None]
  /\ own' = {}

\* base_log_level has been constructed, and assigned to itself.
Init ==
  /\ base_log_level = LOG_LEVEL
  /\ scopes = <<>>
  /\ default = LOG_LEVEL
  /\ loggers = [n \in Names |-> None]
  /\ own = {}

\* The new object is copied over base_log_level, to which it points.
level_setter(level) ==
  /\ Len(scopes) < MaxScopes
  /\ scopes' = Append(scopes, level)
  /\ set(level)
  /\ base_log_level' = level

\* previous is &base_log_level in every level_setter: the level set is that
\* object's own, and then it is assigned to itself.
Leave ==
  /\ scopes # <<>>
  /\ scopes' = Front(scopes)
  /\ set(base_log_level)
  /\ UNCHANGED base_log_level

\* A logger of this name is used again or made.
logger(n) ==
  /\ LET level == IF Exists(n) THEN loggers[n].level ELSE default IN
       loggers' = [loggers EXCEPT ![n] = [level |-> level, flush |-> level]]
  /\ UNCHANGED <<base_log_level, scopes, default, own>>

set_level(n, level) ==
  /\ Exists(n)
  /\ loggers' = [loggers EXCEPT ![n] = [level |-> level, flush |-> level]]
  /\ own' = own \cup {n}
  /\ UNCHANGED <<base_log_level, scopes, default>>

Next ==
  \/ \E level \in Levels : level_setter(level)
  \/ Leave
  \/ \E n \in Names :
       \/ logger(n)
       \/ \E level \in Levels : set_level(n, level)

Spec == Init /\ [][Next]_vars
-----------------------------------------------------------------------------
(***************************************************************************)
(* The doc of level_setter: it sets "the global log level while in a       *)
(* particular scope".  So the level in force, for new loggers and those    *)
(* that were not given one of their own, is that of the innermost scope    *)
(* alive, or the configuration's outside of all.                           *)
(***************************************************************************)
InForce == IF scopes = <<>> THEN LOG_LEVEL ELSE Last(scopes)

ScopeRestoresLevel ==
  /\ default = InForce
  /\ \A n \in Names \ own : Exists(n) => loggers[n].level = InForce
=============================================================================
