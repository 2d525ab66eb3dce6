SPECIFICATION SpecClient
CONSTANT Texts <- RefInstances
INVARIANTS NoRace RightResult
PROPERTY ImplementsProgram
