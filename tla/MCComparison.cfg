CONSTANTS
    h1 = h1  h2 = h2
    Histories = {h1}
    Strategies <- Both
    Tasks <- AllTasks
    Slots = 2
    Reserve = 2
    MaxCalls = 4
    MaxTokens = 7
    MaxRounds = 2
    Unknown = Unknown
SPECIFICATION Spec
INVARIANTS WithinPlan NeverSentTwice CompleteMeansComplete
PROPERTY NothingSentAfterStop
