SPECIFICATION Spec
CONSTANTS
    Width = 8
    Var <- Locals
    Fun <- Funs
    Returns <- ReturnsOf
    Chunks <- AllChunks
    Table <- Tables
    Meta <- Metas
    Key <- Fields
    Null <- NullValue
    Params <- ParamsOf
    Effect <- EffectOf
    Handlers <- HandlersOf
    RawLen <- RawLenOf
INVARIANT TypeOK
PROPERTY ImplementsLua
CHECK_DEADLOCK FALSE
