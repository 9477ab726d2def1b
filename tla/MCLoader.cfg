SPECIFICATION Spec
CONSTANTS
    Classes <- MCClasses
    Super <- MCSuper
    FieldsOf <- MCFieldsOf
    MethodsOf <- MCMethodsOf
    Bucket <- MCBucket
    FileSize <- MCFileSize
    Footprint <- MCFootprint
    CM_SIZE = 17
    InitFiles <- MCInitFiles
    Boot <- MCBoot
    TrapOf <- MCTrapOf
    FilesAtBoot <- MCFilesAtBoot
INVARIANTS
    TypeOK
    LayoutExtendsSuper
    VectorsMostDerived
    
    TablesAgree
CHECK_DEADLOCK FALSE
