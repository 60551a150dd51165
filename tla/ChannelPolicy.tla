---------------------------- MODULE ChannelPolicy ----------------------------
(***************************************************************************)
(* Where a notification may leave the hub: the cross between what its      *)
(* category allows and what the user accepts (ResolveChannels), and the    *)
(* address each channel is given (terminalFor).  Pure: no variables.       *)
(***************************************************************************)

\* The channels of notification_deliveries.channel.  "mqtt" is declared by
\* the schema and the constants, and no code path ever produces it.
Channels == {"in_app", "email", "push", "mqtt"}

\* One row of notification_categories: the flags ResolveChannels reads.
\* is_active is tested by the query of FindCategory, not here.
CategoryRows == [allows: SUBSET {"in_app", "email", "push"}, mandatory: BOOLEAN]

\* One row of user_notification_settings, as the set of accepted channels.
SettingsRows == SUBSET {"email", "push"}

\* A user without a row gets the defaults of the table.
DefaultSettings == {"email", "push"}

\* Mutant: the mandatory flag is forgotten.
AcceptedWhenAsked(category, settings, channel) ==
  channel = "in_app" \/ channel \in settings

\* The bell does not depend on any preference; a mandatory category does not
\* consult them.
Accepted(category, settings, channel) ==
  channel = "in_app" \/ category.mandatory \/ channel \in settings

\* ResolveChannels: every channel the category allows, with "skipped" for the
\* ones the user turned off, so that the decision leaves a trace.
ResolveChannels(category, settings) ==
  [c \in category.allows |->
     IF Accepted(category, settings, c) THEN "pending" ELSE "skipped"]

\* Mutant: no mark for the address that is missing.
TerminalForBlank(channel) ==
  IF channel \in {"in_app", "mqtt"} THEN "topic" ELSE ""

\* terminalFor: in_app and mqtt travel on the topic; mail and push have no
\* address yet and are marked for the delivery worker.
TerminalFor(channel) ==
  IF channel \in {"in_app", "mqtt"} THEN "topic" ELSE "pending:user"

\* The deliveries Execute hands to Save.
PlanDeliveries(category, settings) ==
  LET status == ResolveChannels(category, settings)
  IN  {[channel |-> c, terminal |-> TerminalFor(c), status |-> status[c]] :
         c \in DOMAIN status}

PlannedDeliveries ==
  [channel: Channels, terminal: {"topic", "pending:user"},
   status: {"pending", "skipped"}]
=============================================================================
