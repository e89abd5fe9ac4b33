CONSTANTS
    o1 = o1  o2 = o2
    Ops = {o1, o2}
    Slots = 1
    Limit = 2
    MaxTries = 2
    MaxNavigation = 1
SPECIFICATION FairSpec
INVARIANTS SlotsConserved BudgetKept AnswerBacked
PROPERTIES NothingOfARetiredHistory BudgetNeverLosesEvidence AskEnds
