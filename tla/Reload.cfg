\* One session with up to two results, two edits of the rule file, two signals.
SPECIFICATION FairReloadSpec
CONSTANTS
    r1 = r1
    r2 = r2
    r3 = r3
    SessionIDs = {1}
    Rules <- MCRules
    RuleName <- MCRuleName
    Configs <- MCConfigs
    Knob <- MCKnob
    DefaultKnob = 1
    MaxResults = 2
    MaxEdits = 2
    MaxHups = 2
INVARIANTS ReportedScoreIsSum RuleReportedOnce ResultOfOneConfig ActionAgreesWithLogs EventReadsForward
PROPERTIES SignalledFileGoesInForce
