SPECIFICATION FairSpec
CONSTANTS
    CA = {"c1", "c2", "c3"}
    Signed <- MCSigned
    Histories <- MCHistories
    Manager = {"server", "client"}
    Scenes <- MCScenes
    Life = 2
    Retry = 1
    None = None
INVARIANTS
    LateAnswersHarmless
PROPERTY
    TrustConverges
