---------------------------- MODULE ModelAnswers ----------------------------
(***************************************************************************)
(* The contract with a model: which agents there are, in which order a job *)
(* calls them, what their answers look like, and which answers pass.       *)
(* An answer is a form (how the JSON is wrapped) and a content, reduced to *)
(* what the validators of worker/agents/schemas.py look at.                *)
(***************************************************************************)
EXTENDS Naturals

Agents    == {"triage", "response", "media", "content", "ideation", "insight", "analytics"}
Platforms == {"x", "instagram", "linkedin"}

\* quoting: clean JSON with a fenced block inside one of its strings.
Forms == {"clean", "fenced", "prefixed", "quoting", "prose"}

\* The forms extract_json gets the JSON out of.  From quoting it takes what is
\* inside the fence.
Recovered(form) == form \in {"clean", "fenced", "prefixed"}

\* Captions per platform, items of a list, or whether the fields are in range.
Contents(agent) ==
    CASE agent = "content"                -> [Platforms -> 0..2]
      [] agent \in {"ideation", "insight"} -> 0..1
      [] OTHER                             -> BOOLEAN

\* A validator that looks for missing platforms only.
NoneMissing(drafts) == \A p \in Platforms : drafts[p] > 0
OneDraftPerPlatform(drafts) == \A p \in Platforms : drafts[p] = 1

AtLeastOne(items) == items > 0

\* Fields in range, a summary that is not blank.
Satisfies(agent, content) ==
    CASE agent = "content"                -> OneDraftPerPlatform(content)
      [] agent \in {"ideation", "insight"} -> AtLeastOne(content)
      [] OTHER                             -> content

Passes(agent, form, content) == Recovered(form) /\ Satisfies(agent, content)

-----------------------------------------------------------------------------
Kinds == {"comment", "asset", "ideas", "insights", "summary"}

\* The agent a job starts with; "none" is a quiet week's summary.
FirstAgents(kind) ==
    CASE kind = "comment"  -> {"triage"}
      [] kind = "asset"    -> {"media"}
      [] kind = "ideas"    -> {"ideation"}
      [] kind = "insights" -> {"insight"}
      [] kind = "summary"  -> {"analytics", "none"}

\* What follows an agent's answer: triage says whether a reply is needed.
NextAgents(agent) ==
    CASE agent = "triage" -> {"response", "none"}
      [] agent = "media"  -> {"content"}
      [] OTHER            -> {"none"}
=============================================================================
