---------------------------- MODULE ToolCatalogue ----------------------------
(***************************************************************************)
(* The three lists of tools the bridge keeps apart, as plain operators:    *)
(* what prompt_builder._tools_for_phase offers the model in a phase of a   *)
(* call, what the instructions next to them tell it to call, and what      *)
(* tool_executor._dispatch lets through and can run. Nothing in the code   *)
(* keeps them in step. Descriptions and parameters are wording.            *)
(***************************************************************************)
Phases == {"GREETING", "VERIFY", "TRIAGE", "DIAGNOSE", "RESOLVE", "WRAP_UP"}

Categories == {"technical_support", "billing", "sales", "move_transfer", "appointment", "account"}

NoCategory == "none"

Working == {"DIAGNOSE", "RESOLVE", "WRAP_UP"}

\* service_category or "technical_support"
Effective(category) == IF category = NoCategory THEN "technical_support" ELSE category

----------------------------------------------------------------------------
(* prompt_builder._tools_for_phase.                                        *)

CustomerLookup == {"lookup_customer"}

TechnicalLookups == {"get_ticket", "get_account_history", "get_service_status", "create_ticket"}

\* Mutant: a tool is forgotten when the categories get tools of their own.
LookupsWithoutPromotions(category) ==
  CASE category = "technical_support" -> TechnicalLookups
    [] category = "billing"           -> {"get_account_balance", "get_payment_history"}
    [] category = "sales"             -> {"get_product_catalog"}
    [] category = "move_transfer"     -> {"get_service_eligibility"}
    [] category = "appointment"       -> {"get_appointments"}
    [] category = "account"           -> {"get_account_details"}

LookupsOf(category) ==
  CASE category = "technical_support" -> TechnicalLookups
    [] category = "billing"           -> {"get_account_balance", "get_payment_history"}
    [] category = "sales"             -> {"get_product_catalog", "get_promotions"}
    [] category = "move_transfer"     -> {"get_service_eligibility"}
    [] category = "appointment"       -> {"get_appointments"}
    [] category = "account"           -> {"get_account_details"}

SalesAndBillingActions(category) ==
  CASE category = "billing" -> {"make_payment", "setup_autopay"}
    [] category = "sales"   -> {"initiate_upgrade"}
    [] OTHER                -> {}

ServiceActions(category) ==
  CASE category = "move_transfer" -> {"initiate_service_move", "cancel_service"}
    [] category = "appointment"   -> {"confirm_appointment", "cancel_appointment",
                                      "reschedule_appointment"}
    [] category = "account"       -> {"update_contact_info"}
    [] OTHER                      -> {}

TechnicalActions(category) == IF category = "technical_support" THEN {"update_ticket"} ELSE {}

ActionsOf(category) ==
  TechnicalActions(category) \cup SalesAndBillingActions(category) \cup ServiceActions(category)

PhaseCompleteTool == {"phase_complete"}

WaitTool == {"wait_for_user"}

TransferTool == {"escalate_to_agent"}

NewIssueTool == {"report_new_issue"}

OfferedTools(phase, category) ==
  LET cat == Effective(category)
  IN PhaseCompleteTool \cup WaitTool
     \cup (IF phase = "TRIAGE" THEN {} ELSE TransferTool)
     \cup (IF phase \in Working \cup {"VERIFY"} THEN CustomerLookup ELSE {})
     \cup (IF phase \in Working THEN LookupsOf(cat) ELSE {})
     \cup (IF phase \in {"RESOLVE", "WRAP_UP"} THEN ActionsOf(cat) \cup NewIssueTool ELSE {})

----------------------------------------------------------------------------
(* The tools named by the instructions of a phase.                         *)

DiagnoseNames(cat) ==
  {"phase_complete"} \cup
  CASE cat = "technical_support" -> {"get_service_status", "get_ticket", "get_account_history",
                                     "escalate_to_agent"}
    [] cat = "billing"       -> {"get_account_balance", "get_payment_history", "escalate_to_agent"}
    [] cat = "sales"         -> {"get_product_catalog", "get_promotions"}
    [] cat = "move_transfer" -> {"get_service_eligibility"}
    [] cat = "appointment"   -> {"get_appointments"}
    [] cat = "account"       -> {"get_account_details"}

ResolveNames(cat) ==
  {"phase_complete"} \cup
  CASE cat = "technical_support" -> {"create_ticket", "update_ticket", "escalate_to_agent"}
    [] cat = "billing"       -> {"make_payment", "setup_autopay", "escalate_to_agent"}
    [] cat = "sales"         -> {"initiate_upgrade", "escalate_to_agent"}
    [] cat = "move_transfer" -> {"initiate_service_move", "cancel_service", "escalate_to_agent"}
    [] cat = "appointment"   -> {"confirm_appointment", "cancel_appointment",
                                 "reschedule_appointment"}
    [] cat = "account"       -> {"update_contact_info"}

\* The hints of WRAP_UP, the same for every category. "get_ticket" is for a caller who
\* quotes a number.
WrapUpNames == {"phase_complete", "report_new_issue", "get_service_status", "get_ticket",
                "get_account_history", "create_ticket"}

\* _base_instructions, in front of every phase: look the caller up before any answer, wait
\* while nobody speaks, and for billing callers the billing section. (It names
\* report_new_issue only "if it is in your current tool list".)
BaseNames(category) ==
  {"lookup_customer", "wait_for_user"} \cup
  (IF category = "billing" THEN {"get_account_balance", "get_payment_history"} ELSE {})

PhaseNames(phase, category) ==
  CASE phase = "VERIFY"   -> {"lookup_customer"}
    [] phase = "DIAGNOSE" -> DiagnoseNames(Effective(category))
    [] phase = "RESOLVE"  -> ResolveNames(Effective(category)) \cup {"report_new_issue"}
    [] phase = "WRAP_UP"  -> WrapUpNames
    [] OTHER              -> {"phase_complete"}

\* What build tells the model to call.
InstructedTools(phase, category) == BaseNames(category) \cup PhaseNames(phase, category)

----------------------------------------------------------------------------
(* tool_executor: invented names, the phase guard, and what _dispatch runs. *)

\* _TOOL_SYNONYMS, one name for each tool that has any.
Synonyms == [get_tickets  |-> "get_service_status",
             check_ticket |-> "get_ticket",
             close_ticket |-> "update_ticket"]

Resolved(tool) == IF tool \in DOMAIN Synonyms THEN Synonyms[tool] ELSE tool

\* _DIAGNOSE_ALLOWED and _RESOLVE_ALLOWED: whatever the category.
DiagnoseAllowed ==
  {"phase_complete", "escalate_to_agent", "lookup_customer",
   "get_service_status", "get_ticket", "get_account_history", "create_ticket",
   "get_product_catalog", "get_promotions", "get_account_balance", "get_payment_history",
   "get_service_eligibility", "get_appointments", "get_account_details"}

ResolveAllowed ==
  DiagnoseAllowed \cup
  {"report_new_issue", "update_ticket", "initiate_upgrade", "make_payment", "setup_autopay",
   "initiate_service_move", "cancel_service", "confirm_appointment", "cancel_appointment",
   "reschedule_appointment", "update_contact_info"}

\* Mutant: WRAP_UP keeps the list of DIAGNOSE.
AllowedAsDiagnosed(phase) ==
  CASE phase = "GREETING"            -> {"phase_complete", "escalate_to_agent"}
    [] phase = "VERIFY"              -> {"phase_complete", "escalate_to_agent", "lookup_customer"}
    [] phase = "TRIAGE"              -> {"phase_complete", "lookup_customer"}
    [] phase = "RESOLVE"             -> ResolveAllowed
    [] OTHER                         -> DiagnoseAllowed

\* _PHASE_TOOL_ALLOWLIST
AllowedTools(phase) ==
  CASE phase = "GREETING"            -> {"phase_complete", "escalate_to_agent"}
    [] phase = "VERIFY"              -> {"phase_complete", "escalate_to_agent", "lookup_customer"}
    [] phase = "TRIAGE"              -> {"phase_complete", "lookup_customer"}
    [] phase = "DIAGNOSE"            -> DiagnoseAllowed
    [] phase \in {"RESOLVE", "WRAP_UP"} -> ResolveAllowed

\* The write tools that only answer feature_pending.
StubTools ==
  {"initiate_upgrade", "make_payment", "setup_autopay", "initiate_service_move",
   "cancel_service", "confirm_appointment", "cancel_appointment", "reschedule_appointment",
   "update_contact_info"}

\* The lookups that read the rows of one account.
AccountTools ==
  {"get_service_status", "get_account_history", "get_account_balance", "get_payment_history",
   "get_promotions", "get_appointments", "get_account_details"}

\* The lookups that find rows without an account.
CatalogTools == {"get_product_catalog", "get_service_eligibility"}

\* Handled before _dispatch, by handle itself.
ControlTools == {"phase_complete", "wait_for_user", "report_new_issue"}

ToolNames == CustomerLookup \cup StubTools \cup AccountTools \cup CatalogTools \cup TransferTool
             \cup {"create_ticket", "get_ticket", "update_ticket"}

=============================================================================
