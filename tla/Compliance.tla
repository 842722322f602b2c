----------------------------- MODULE Compliance -----------------------------
(***************************************************************************)
(* The compliance engine of src/src/compliance.rs.  Controls are strings   *)
(* in four tables that no type keeps together: the names a regulation      *)
(* requires, the names an engine lists, the names control_enabled knows    *)
(* and the profile's fields.                                               *)
(***************************************************************************)
EXTENDS Integers

CONSTANT Days   \* the days a caller may pass

Regulation == {"Gdpr", "Ccpa", "Cpra", "Hipaa", "Soc2", "Iso27001"}
Fields == {"data_minimization", "deletion_requests_supported", "encryption_at_rest",
           "access_control", "audit_logging", "incident_response_plan", "zeroization",
           "telemetry_pii_redaction"}

VARIABLES
    profile,  \* ComplianceProfile, fixed by ComplianceEngine::new: its fields that are true
    report    \* the last ComplianceReport, if any

vars == <<profile, report>>

required_controls(regulation) ==
    CASE regulation = "Gdpr" ->
           {"data_minimization", "deletion_requests", "access_control", "audit_logging",
            "telemetry_redaction"}
      [] regulation \in {"Ccpa", "Cpra"} ->
           {"data_minimization", "deletion_requests", "access_control", "audit_logging"}
      [] regulation = "Hipaa" ->
           {"encryption_at_rest", "access_control", "audit_logging", "incident_response",
            "zeroization"}
      [] regulation \in {"Soc2", "Iso27001"} ->
           {"encryption_at_rest", "access_control", "audit_logging", "incident_response",
            "data_minimization"}

\* Variant: a control the table forgot.
all_controlsShort ==
    {"data_minimization", "deletion_requests", "encryption_at_rest", "access_control",
     "audit_logging", "zeroization", "telemetry_redaction"}

all_controls ==
    {"data_minimization", "deletion_requests", "encryption_at_rest", "access_control",
     "audit_logging", "incident_response", "zeroization", "telemetry_redaction"}

\* Variant: an arm that uses the field's name for the control's.
FieldOfByField(control) ==
    CASE control \in {"data_minimization", "encryption_at_rest", "access_control",
                      "audit_logging", "zeroization"} -> {control}
      [] control = "deletion_requests" -> {"deletion_requests_supported"}
      [] control = "incident_response" -> {"incident_response_plan"}
      [] OTHER -> {}

\* The arms of control_enabled; a name it does not know has no field.
FieldOf(control) ==
    CASE control \in {"data_minimization", "encryption_at_rest", "access_control",
                      "audit_logging", "zeroization"} -> {control}
      [] control = "deletion_requests" -> {"deletion_requests_supported"}
      [] control = "incident_response" -> {"incident_response_plan"}
      [] control = "telemetry_redaction" -> {"telemetry_pii_redaction"}
      [] OTHER -> {}
control_enabled(p, control) == FieldOf(control) \cap p # {}

enabled_controls(p) == {c \in all_controls : control_enabled(p, c)}

\* The evidence is a hash of the control, the day and whether it is enabled.
generate_artifact(control, day, enabled) ==
    [control |-> control, generated_day |-> day, evidence |-> <<control, day, enabled>>]

\* Sorted lists are sets here: no control is required twice.
Evaluated(p, regulation, day) ==
    LET required == required_controls(regulation)
        missing == {c \in required : ~control_enabled(p, c)}
    IN  [regulation |-> regulation, ready |-> missing = {}, missing_controls |-> missing,
         artifacts |-> {generate_artifact(c, day, control_enabled(p, c)) : c \in required}]

Init == profile \in SUBSET Fields /\ report = {}

evaluate(regulation, day) ==
    /\ report' = {Evaluated(profile, regulation, day)}
    /\ UNCHANGED profile

Next == \E regulation \in Regulation, day \in Days : evaluate(regulation, day)

Spec == Init /\ [][Next]_vars

\* The two answers an auditor compares agree: a regulation is ready exactly when its
\* controls are all among the engine's enabled_controls, and what is missing is what
\* is not enabled.
ReportAgreesWithListing ==
    \A r \in report :
        /\ r.ready <=> required_controls(r.regulation) \subseteq enabled_controls(profile)
        /\ r.missing_controls = required_controls(r.regulation) \ enabled_controls(profile)

\* Every missing control can be met, by one profile field that is off: turning that
\* field on takes the control off the list and leaves the rest of it.
MissingCanBeMended ==
    \A r \in report : \A c \in r.missing_controls :
        \E field \in Fields \ profile :
            LET mended == Evaluated(profile \cup {field}, r.regulation, 0)
            IN  mended.missing_controls = r.missing_controls \ {c}
=============================================================================
