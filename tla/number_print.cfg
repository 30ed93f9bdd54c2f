SPECIFICATION Spec
CONSTANTS
    Width = 8
    Var <- Locals
    Fun <- Funs
    Returns <- ReturnsOf
    Chunks <- Renarrowed
    Table <- Tables
    Meta <- Metas
    Key <- Fields
    Null <- NullValue
    Params <- ParamsOf
    Effect <- EffectOf
    Handlers <- HandlersOf
    RawLen <- RawLenOf
PROPERTY PrintsTheValue
CHECK_DEADLOCK FALSE
